---- MODULE Spec2Model ----
(***************************************************************************)
(* Verification model of MiV-Simulator's LFP estimator                     *)
(* (src/miv_simulator/lfp.py) and of the opsin stimulation protocols       *)
(* (src/miv_simulator/opsin/protocols.py).                                 *)
(*                                                                         *)
(* Numbers.  Lengths and coordinates are integers (um).  Node coordinates  *)
(* of a section with nseg segments are kept multiplied by 2*nseg, which is *)
(* the denominator interpxyz introduces, so that every comparison the code *)
(* makes (l = 0, rd = 0, the sign of sd, distance < maxEDist) is decided   *)
(* exactly on integers.  The logarithm of the line-source formula is not   *)
(* evaluated: a finite coefficient is the record of the quantities the     *)
(* formula reads together with the rational factor mulN/mulD applied to it.*)
(* Membrane currents are host values read at sampling time; a weighted sum *)
(* is kept as the sequence of its terms (segment, coefficient).            *)
(***************************************************************************)
EXTENDS Integers, Sequences, FiniteSets, TLC

VARIABLES
    cells,      \* host: gid -> cell (ownership, kind, soma point, sections)
    epoint,     \* LFP.epoint, the electrode position
    ransample,  \* host: gid -> the draw of the stream of the gid's population
                \* whose number is the gid's position in that population
    lfp,        \* rank -> the LFP object constructed on that rank
    ht,         \* h.t, the simulation time (ticks)
    events,     \* the simulator's queue of scheduled sample_lfp events (times)
    running,    \* TRUE once finitialize has run the type-1 handlers
    vlfp,       \* rank -> the local weighted sum of the last pos_lfp call
    nreduce,    \* rank -> the number of pc.allreduce calls the rank has made
    prot,       \* the Protocol object the caller holds (protocol = "" : none)
    call,       \* the last call made on the protocols module and its outcome
    printed     \* the diagnostic messages printed so far

lfpVars == <<cells, epoint, ransample, lfp, ht, events, running, vlfp, nreduce>>

protVars == <<prot, call, printed>>

vars == <<cells, epoint, ransample, lfp, ht, events, running, vlfp, nreduce,
          prot, call, printed>>

-----------------------------------------------------------------------------
(* Bounds of the model. *)

MaxNseg == 2

MaxSamples == 2

\* calls of next made after the iteration has ended
MaxNextAfterEnd == 2

\* pc.id() of the ranks of the parallel context
Ranks == {0, 1}

Gids == {1, 2, 3}

\* sorted(self.pop_gid_dict.keys())
PopNames == <<"A", "B">>

\* pop_gid_dict: population name -> its gids in iteration order
pop_gid_dict == [A |-> <<1, 3>>, B |-> <<2>>]

-----------------------------------------------------------------------------
(* Constructor arguments of LFP (lfp.py:65-76). *)

\* fdst = FdstNum / FdstDen, the default 0.1
FdstNum == 1

FdstDen == 10

\* values of ranlfp.repick(), uniform on [0, 1), in units of 1 / FdstDen:
\* below fdst and equal to fdst
RanChoices == {0, 1}

MaxEDistChoices == {1, 2}

\* dt_lfp = 0.5 ms, in ticks of 0.1 ms
dt_lfp == 5

P0 == <<0, 0, 0>>

Px == <<2, 0, 0>>

Pxy == <<2, 2, 0>>

Pe == <<0, 1, 0>>

EpointChoices == {P0, Pe}

-----------------------------------------------------------------------------
(* Host geometry. *)

Sq(a) == a * a

Dist2(p, q) == Sq(p[1] - q[1]) + Sq(p[2] - q[2]) + Sq(p[3] - q[3])

\* A section: its two pt3d points, L, nseg, h.area of its segments (areaNaN:
\* the host reports a NaN area), and whether it has the extracellular mechanism.
Section(p0, p1, L, nseg, area, areaNaN) ==
    [p0 |-> p0, p1 |-> p1, L |-> L, nseg |-> nseg, area |-> area,
     areaNaN |-> areaNaN]

\* Morphologies: one or two sections; straight, axis-parallel, two pt3d points.
CellShapes ==
    {<<Section(P0, Px, 2, n, 1, FALSE)>> : n \in 1 .. MaxNseg}
    \cup {<<Section(P0, Px, 2, n, 1, FALSE), Section(Px, Pxy, 2, 1, 3, FALSE)>> :
              n \in 1 .. MaxNseg}
    \cup {<<Section(Pxy, Px, 2, 1, 1, FALSE)>>}
    \cup {<<Section(Pxy, Px, 2, 1, 1, FALSE), Section(Px, Px, 0, 1, 3, FALSE)>>}
    \cup {<<Section(Pxy, Px, 2, 1, 1, FALSE), Section(Px, P0, 2, 1, 3, TRUE)>>}

CellKinds == {"bio", "art", "reduced"}

Cells == [owner : Ranks, kind : CellKinds, secs : CellShapes]

\* the cells of a network: gid 3, the second cell of its population, is a
\* biophysical cell of one section
Networks ==
    {cs \in [Gids -> Cells] :
         cs[3].kind = "bio" /\ cs[3].secs = <<Section(P0, Px, 2, 1, 1, FALSE)>>}

-----------------------------------------------------------------------------
(* interpxyz (lfp.py:26-61): coordinates of the nodes 0 .. nseg+1 of a     *)
(* section, multiplied by 2*nseg.                                          *)

\* rangev.x[k] * 2 * nsegs
rangev(nsegs, k) ==
    IF k = 0 THEN 0
    ELSE IF k = nsegs + 1 THEN 2 * nsegs
    ELSE 2 * k - 1

\* (xint.x[k], yint.x[k], zint.x[k]) * 2 * nseg: linear interpolation along
\* the normalised arc length between the two pt3d points
interpxyz(sec, k) ==
    [c \in 1 .. 3 |->
        2 * sec.nseg * sec.p0[c] + (sec.p1[c] - sec.p0[c]) * rangev(sec.nseg, k)]

-----------------------------------------------------------------------------
(* The line-source coefficient (lfp.py:141-180).                           *)

\* A coefficient value: the finite number
\*   (mulN / mulD) * 0.0001 * area * rho / (4 pi l) * |log(...)|
\* of the segment geometry (L, nseg, ld2, rd2), or 0.0, or NaN, or the
\* exception the expression raises.
Coef(kind, area, L, nseg, ld2, rd2, mulN, mulD) ==
    [kind |-> kind, area |-> area, L |-> L, nseg |-> nseg, ld2 |-> ld2,
     rd2 |-> rd2, mulN |-> mulN, mulD |-> mulD]

Zero == Coef("zero", 0, 0, 0, 0, 0, 0, 1)

NaN == Coef("nan", 0, 0, 0, 0, 0, 0, 1)

Raise(exc) == Coef(exc, 0, 0, 0, 0, 0, 0, 1)

IsError(k) == k.kind \in {"ZeroDivisionError", "ValueError"}

\* the index of xint the code reads for the segment numbered j (from 0)
NodeIndex(j) == j

\* rd^2 and ld^2 of the segment numbered j, times (2 nseg)^2 (lfp.py:143-161)
rd2Of(sec, j, e) ==
    LET s == interpxyz(sec, NodeIndex(j))
        es == [c \in 1 .. 3 |-> 2 * sec.nseg * e[c]]
    IN Dist2(es, s)

ld2Of(sec, j) == Dist2(interpxyz(sec, NodeIndex(j)), interpxyz(sec, 0))

\* k of lfp.py:163-173.  l = L / nseg; the divisions and the logarithm are
\* Python's: a zero divisor raises ZeroDivisionError, log(0) raises
\* ValueError.  With rd = 0 the numerator sqrt(ld^2) - ld is 0, and the
\* denominator sqrt(sd^2) - sd is 0 when sd >= 0 and 2|sd| otherwise;
\* sd = l - ld >= 0 iff 4 L^2 >= ld2 (both sides times (2 nseg)^2).
LineSource(sec, j, e) ==
    LET rd2 == rd2Of(sec, j, e)
        ld2 == ld2Of(sec, j)
    IN  IF sec.L = 0 THEN Raise("ZeroDivisionError")
        ELSE IF rd2 = 0 /\ 4 * Sq(sec.L) >= ld2 THEN Raise("ZeroDivisionError")
        ELSE IF rd2 = 0 THEN Raise("ValueError")
        ELSE IF sec.areaNaN THEN NaN
        ELSE Coef("k", sec.area, sec.L, sec.nseg, ld2, rd2, 1, 1)

\* if math.isnan(k): k = 0.0   (lfp.py:174-175)
NanGuard(k) == IF k.kind = "nan" THEN Zero ELSE k

\* DistalScale with the factor inverted: the distal coefficient times fdst
DistalScale_ByFdst(k, lfptype) ==
    IF lfptype = 2
    THEN IF k.kind = "zero" THEN Zero
         ELSE [k EXCEPT !.mulN = k.mulN * FdstNum, !.mulD = k.mulD * FdstDen]
    ELSE k

\* if lfp_types.x[i] == 2: k = (1.0 / self.fdst) * k   (lfp.py:177-178)
DistalScale(k, lfptype) ==
    IF lfptype = 2
    THEN IF k.kind = "zero" THEN Zero
         ELSE [k EXCEPT !.mulN = k.mulN * FdstDen, !.mulD = k.mulD * FdstNum]
    ELSE k

\* the value stored for the segment numbered j of sec (lfp.py:163-180)
SegCoeff(sec, j, e, lfptype) ==
    LET k == LineSource(sec, j, e)
    IN IF IsError(k) THEN k ELSE DistalScale(NanGuard(k), lfptype)

-----------------------------------------------------------------------------
(* LFP.setup_lfp (lfp.py:183-263), on the rank whose pc.id() is r.         *)

TotalNseg(secs) ==
    LET RECURSIVE Sum(_)
        Sum(s) == IF s > Len(secs) THEN 0 ELSE secs[s].nseg + Sum(s + 1)
    IN Sum(1)

\* the comparison with maxEDist not strict
LfpType_Within(cell, e, maxEDist, sample) ==
    IF maxEDist > 0 /\ Dist2(cell.secs[1].p0, e) <= Sq(maxEDist) THEN 1
    ELSE IF sample < FdstNum THEN 2
    ELSE 0

\* lfptype of a gid that passed the ownership and cell-kind checks
\* (lfp.py:230-246); the soma point is the first pt3d point of soma_list[0]
LfpType(cell, e, maxEDist, sample) ==
    IF maxEDist > 0 /\ Dist2(cell.secs[1].p0, e) < Sq(maxEDist) THEN 1
    ELSE IF sample < FdstNum THEN 2
    ELSE 0

\* the cell-kind checks left out
Eligible_Present(cell, r) == cell.owner = r

\* whether the loop body reaches lfp.py:230 for this gid on rank r
Eligible(cell, r) == cell.owner = r /\ cell.kind = "bio"

\* the draws of ranlfp = h.Random(seed + ipop), in order (lfp.py:195-196)
Stream(gseq, rs) == [n \in DOMAIN gseq |-> rs[gseq[n]]]

\* a draw made only for the gids the rank owns
Draws_Owned(gseq, n, r, cs) ==
    Cardinality({i \in 1 .. n : cs[gseq[i]].owner = r})

\* the number of calls of ranlfp.repick() made when the gid at position n
\* has its sample: one per gid, before the ownership check (lfp.py:202-207)
Draws(gseq, n, r, cs) == n

\* the (gid, lfptype) pairs appended for one population, in iteration order
SelectedOf(gseq, r, cs, e, maxEDist, rs) ==
    LET typeOf(n) == IF Eligible(cs[gseq[n]], r)
                     THEN LfpType(cs[gseq[n]], e, maxEDist,
                                  Stream(gseq, rs)[Draws(gseq, n, r, cs)])
                     ELSE 0
        RECURSIVE Walk(_)
        Walk(n) ==
            IF n > Len(gseq) THEN <<>>
            ELSE IF typeOf(n) > 0
                 THEN <<[gid |-> gseq[n], lfptype |-> typeOf(n)]>>
                          \o Walk(n + 1)
                 ELSE Walk(n + 1)
    IN Walk(1)

-----------------------------------------------------------------------------
(* LFP.setup_lfp_coeffs (lfp.py:97-181).                                   *)

NoError == [kind |-> "none", gid |-> 0, sec |-> 0, seg |-> 0]

\* the index of the coefficient vector written for the segment numbered j of
\* the section numbered s: j restarts at 0 in every section (lfp.py:137, 180)
CoeffSlot(secs, s, j) == j + 1

\* The loop over the sections and segments of one selected cell.  st is
\* [vec, stored, err]: the cell's coefficient vector, the log of the stores
\* executed at lfp.py:180 and the exception that ended the loop.
RECURSIVE CoeffsOfCell(_, _, _, _, _, _, _)
CoeffsOfCell(st, gid, secs, s, j, e, lfptype) ==
    IF st.err.kind # "none" \/ s > Len(secs) THEN st
    ELSE IF j >= secs[s].nseg
    THEN CoeffsOfCell(st, gid, secs, s + 1, 0, e, lfptype)
    ELSE LET k == SegCoeff(secs[s], j, e, lfptype)
         IN IF IsError(k)
            THEN [st EXCEPT !.err = [kind |-> k.kind, gid |-> gid,
                                      sec |-> s, seg |-> j]]
            ELSE CoeffsOfCell(
                     [st EXCEPT !.vec[CoeffSlot(secs, s, j)] = k,
                                !.stored = Append(@, [gid |-> gid, sec |-> s,
                                                       seg |-> j, k |-> k,
                                                       lfptype |-> lfptype])],
                     gid, secs, s, j + 1, e, lfptype)

\* vec.resize(n): n zeros (lfp.py:251-257)
NewVec(secs) == [x \in 1 .. TotalNseg(secs) |-> Zero]

\* The loop over the selected cells of one population.  acc is
\* [coeffs, stored, err].
RECURSIVE CoeffsOfPop(_, _, _, _, _)
CoeffsOfPop(acc, sel, i, cs, e) ==
    IF acc.err.kind # "none" \/ i > Len(sel) THEN acc
    ELSE LET secs == cs[sel[i].gid].secs
             st == CoeffsOfCell([vec |-> NewVec(secs), stored |-> acc.stored,
                                 err |-> NoError],
                                sel[i].gid, secs, 1, 0, e, sel[i].lfptype)
         IN CoeffsOfPop([coeffs |-> Append(acc.coeffs, st.vec),
                         stored |-> st.stored, err |-> st.err],
                        sel, i + 1, cs, e)

\* The LFP object after __init__ on rank r (lfp.py:78-95): the populations
\* are selected, then their coefficients computed; an exception raised by
\* the coefficient computation propagates out of the constructor.
SetupLfp(r, cs, e, maxEDist, rs) ==
    LET selA == SelectedOf(pop_gid_dict.A, r, cs, e, maxEDist, rs)
        selB == SelectedOf(pop_gid_dict.B, r, cs, e, maxEDist, rs)
        a == CoeffsOfPop([coeffs |-> <<>>, stored |-> <<>>, err |-> NoError],
                         selA, 1, cs, e)
        b == CoeffsOfPop([coeffs |-> <<>>, stored |-> a.stored, err |-> a.err],
                         selB, 1, cs, e)
        ids(sel) == [i \in 1 .. Len(sel) |-> sel[i].gid]
        types(sel) == [i \in 1 .. Len(sel) |-> sel[i].lfptype]
    IN [status |-> IF b.err.kind = "none" THEN "ready" ELSE "raised",
        err |-> b.err,
        maxEDist |-> maxEDist,
        lfp_ids |-> [A |-> ids(selA), B |-> ids(selB)],
        lfp_types |-> [A |-> types(selA), B |-> types(selB)],
        lfp_coeffs |-> [A |-> a.coeffs, B |-> b.coeffs],
        stored |-> b.stored,
        t |-> <<>>,
        meanlfp |-> <<>>]

NoLfp ==
    [status |-> "none", err |-> NoError, maxEDist |-> 0,
     lfp_ids |-> [A |-> <<>>, B |-> <<>>],
     lfp_types |-> [A |-> <<>>, B |-> <<>>],
     lfp_coeffs |-> [A |-> <<>>, B |-> <<>>],
     stored |-> <<>>, t |-> <<>>, meanlfp |-> <<>>]

-----------------------------------------------------------------------------
(* LFP.pos_lfp (lfp.py:265-291): the local sum, as the sequence of its     *)
(* terms i_membrane(gid, sec, seg) * k.                                    *)

\* the index of the coefficient vector read for the segment numbered j of the
\* section numbered s (lfp.py:283-288)
ReadSlot(secs, s, j) == j + 1

TermsOfCell(gid, secs, vec) ==
    LET RECURSIVE Walk(_, _)
        Walk(s, j) ==
            IF s > Len(secs) THEN <<>>
            ELSE IF j >= secs[s].nseg THEN Walk(s + 1, 0)
            ELSE <<[gid |-> gid, sec |-> s, seg |-> j,
                    k |-> vec[ReadSlot(secs, s, j)]]>> \o Walk(s, j + 1)
    IN Walk(1, 0)

TermsOfPop(o, pop, cs) ==
    LET RECURSIVE Walk(_)
        Walk(i) ==
            IF i > Len(o.lfp_ids[pop]) THEN <<>>
            ELSE TermsOfCell(o.lfp_ids[pop][i], cs[o.lfp_ids[pop][i]].secs,
                             o.lfp_coeffs[pop][i]) \o Walk(i + 1)
    IN Walk(1)

\* vlfp before the reduction
LocalSum(o, cs) == TermsOfPop(o, "A", cs) \o TermsOfPop(o, "B", cs)

\* the reduction returning the caller's own contribution
allreduce_Local(local) == local[0]

\* self.pc.allreduce(vlfp, 1): the sum over the ranks
allreduce(local) == local[0] \o local[1]

\* the number of pc.allreduce calls one pos_lfp makes on a rank: the call of
\* lfp.py:290 is outside every loop and condition
Reductions(o) == 1

-----------------------------------------------------------------------------
(* LFP.sample_lfp (lfp.py:293-308), run by every rank at the same event.   *)

\* the next execution scheduled two intervals ahead
sample_lfp_Late(now) ==
    LET local == [r \in Ranks |-> LocalSum(lfp[r], cells)]
        meanlfp == allreduce(local)
    IN /\ vlfp' = local
       /\ lfp' = [r \in Ranks |->
                    IF r = 0
                    THEN [lfp[r] EXCEPT !.meanlfp = Append(@, meanlfp),
                                        !.t = Append(@, now)]
                    ELSE lfp[r]]
       /\ events' = (events \ {now}) \cup {now + 2 * dt_lfp}
       /\ nreduce' = [r \in Ranks |-> nreduce[r] + Reductions(lfp[r])]

\* the sample recorded on every rank
sample_lfp_EveryRank(now) ==
    LET local == [r \in Ranks |-> LocalSum(lfp[r], cells)]
        meanlfp == allreduce(local)
    IN /\ vlfp' = local
       /\ lfp' = [r \in Ranks |->
                    [lfp[r] EXCEPT !.meanlfp = Append(@, meanlfp),
                                   !.t = Append(@, now)]]
       /\ events' = (events \ {now}) \cup {now + dt_lfp}
       /\ nreduce' = [r \in Ranks |-> nreduce[r] + Reductions(lfp[r])]

sample_lfp(now) ==
    LET local == [r \in Ranks |-> LocalSum(lfp[r], cells)]
        meanlfp == allreduce(local)
    IN /\ vlfp' = local
       /\ lfp' = [r \in Ranks |->
                    IF r = 0
                    THEN [lfp[r] EXCEPT !.meanlfp = Append(@, meanlfp),
                                        !.t = Append(@, now)]
                    ELSE lfp[r]]
       /\ events' = (events \ {now}) \cup {now + dt_lfp}
       /\ nreduce' = [r \in Ranks |-> nreduce[r] + Reductions(lfp[r])]

-----------------------------------------------------------------------------
(* Python values of the protocol parameters.  Times are integers in ticks  *)
(* of 0.1 ms.  A value carries its Python type, because the code branches  *)
(* on it (np.isscalar, isinstance) and because list.sort and ndarray.sort  *)
(* differ.  "list" and "ndarray" hold numbers, "list2" and "ndarray2" rows. *)

None_ == [ty |-> "none", v |-> <<>>]

Num(x) == [ty |-> "num", v |-> <<x>>]

List(s) == [ty |-> "list", v |-> s]

NdArray(s) == [ty |-> "ndarray", v |-> s]

List2(rows) == [ty |-> "list2", v |-> rows]

NdArray2(rows) == [ty |-> "ndarray2", v |-> rows]

\* a value that is no number and no list, tuple or array (a dict)
Other == [ty |-> "other", v |-> <<>>]

\* np.isscalar(x)
isscalar(x) == x.ty = "num"

\* sorted copies of a sequence of numbers
RECURSIVE InsertDesc(_, _)
InsertDesc(x, s) ==
    IF s = <<>> THEN <<x>>
    ELSE IF x >= Head(s) THEN <<x>> \o s
    ELSE <<Head(s)>> \o InsertDesc(x, Tail(s))

RECURSIVE SortDesc(_)
SortDesc(s) == IF s = <<>> THEN <<>> ELSE InsertDesc(Head(s), SortDesc(Tail(s)))

Reverse(s) == [i \in 1 .. Len(s) |-> s[Len(s) + 1 - i]]

\* the sequence left in the order given
SortAsc_None(s) == s

\* np.sort(s)
SortAsc(s) == Reverse(SortDesc(s))

SeqMax(s) == SortDesc(s)[1]

SeqMin(s) == SortAsc(s)[1]

-----------------------------------------------------------------------------
(* Stimulus functions: scipy's InterpolatedUnivariateSpline(x, y, k, ext=1) *)
(* as its data.  Intensities are kept in units of 1 / PhiUnit.             *)

\* cos(2 pi n / 20) in thousandths, n = 0 .. 19
Cos20 == <<1000, 951, 809, 588, 309, 0, -309, -588, -809, -951,
           -1000, -951, -809, -588, -309, 0, 309, 588, 809, 951>>

CosOne == Cos20[1]

PhiUnit == 2 * CosOne

IsIncreasing(xs) == \A i \in 1 .. (Len(xs) - 1) : xs[i] < xs[i + 1]

\* spline(xs, ys, k=k, ext=ext): the constructor needs more than k points at
\* strictly increasing abscissae
spline(xs, ys, k, ext) ==
    [exc |-> IF ~IsIncreasing(xs) THEN "ValueError"
             ELSE IF Len(xs) <= k THEN "fitpack.error"
             ELSE "none",
     k |-> k, ext |-> ext, xs |-> xs, ys |-> ys]

\* a container slot still holding None
NoneFn == [exc |-> "none", k |-> 0, ext |-> 0, xs |-> <<>>, ys |-> <<>>]

IsKnot(f, x) == \E i \in DOMAIN f.xs : f.xs[i] = x

\* f(x) at a knot, where the interpolating spline takes the data value, or
\* outside the data, where ext = 1 returns 0 and ext = 3 the boundary value
EvalAt(f, x) ==
    IF x < f.xs[1] THEN (IF f.ext = 1 THEN 0 ELSE f.ys[1])
    ELSE IF x > f.xs[Len(f.xs)] THEN (IF f.ext = 1 THEN 0 ELSE f.ys[Len(f.xs)])
    ELSE f.ys[CHOOSE i \in DOMAIN f.xs : f.xs[i] = x]

-----------------------------------------------------------------------------
(* The Protocol object (protocols.py:26-53) and the class attributes of    *)
(* its subclasses.                                                         *)

ProtocolNames ==
    <<"step", "delta", "sinusoid", "chirp", "ramp", "recovery", "shortPulse",
      "custom">>

\* the attributes before setParams: the class attributes, None where the
\* class sets none; phi_ts is no attribute ("absent") until it is assigned,
\* then None ("none") or the container ("list"); run is no attribute (-1)
\* until __iter__ assigns it
ClassAttrs(name) ==
    [protocol |-> name,
     exc |-> "none",
     warnings |-> <<>>,
     nRuns |-> IF name \in {"step", "ramp", "delta"} THEN 1 ELSE 0,
     Dt_delay |-> 0,
     cycles |-> None_,
     Dt_total |-> None_,
     phis |-> None_,
     Vs |-> None_,
     nPulses |-> IF name = "shortPulse" THEN 1
                 ELSE IF name = "recovery" THEN 2 ELSE 0,
     pulses |-> <<>>,
     Dt_delays |-> <<>>,
     Dt_ons |-> <<>>,
     Dt_offs |-> <<>>,
     nPhis |-> 0,
     nVs |-> 0,
     phi_ts |-> [ty |-> "absent", v |-> <<>>],
     t_start |-> 0,
     t_end |-> None_,
     startOn |-> FALSE,
     phi0 |-> Num(0),
     fs |-> <<>>,
     ws |-> <<>>,
     sr |-> 0,
     f0 |-> 0,
     fT |-> 0,
     Dt_on |-> 0,
     pDs |-> <<>>,
     Dt_IPIs |-> <<>>,
     runCycles |-> <<>>,
     run |-> -1]

NoProt == ClassAttrs("")

Raised(o, e) == [o EXCEPT !.exc = e]

Ok(o) == o.exc = "none"

\* cycles2times(cycles, Dt_delay): the pulse intervals [start, end] and the
\* time at which the last off phase ends
cycles2times(rows, Dt_delay) ==
    LET RECURSIVE Walk(_, _)
        Walk(p, t) ==
            IF p > Len(rows) THEN [pulses |-> <<>>, Dt_total |-> t]
            ELSE LET rest == Walk(p + 1, t + rows[p][1] + rows[p][2])
                 IN [pulses |-> <<<<t, t + rows[p][1]>>>> \o rest.pulses,
                     Dt_total |-> rest.Dt_total]
    IN Walk(1, Dt_delay)

Col(rows, c) == [i \in 1 .. Len(rows) |-> rows[i][c]]

\* the list reversed in place instead of sorted
SortReverse_Flip(x) ==
    IF x.ty = "list" THEN [exc |-> "none", val |-> List(Reverse(x.v))]
    ELSE IF x.ty = "ndarray" THEN [exc |-> "TypeError", val |-> x]
    ELSE [exc |-> "AttributeError", val |-> x]

\* self.x.sort(reverse=True) after the scalar has been wrapped in a list
\* (protocols.py:100-108): list.sort sorts in place; ndarray.sort takes no
\* "reverse" keyword; None and a tuple have no sort
SortReverse(x) ==
    IF x.ty = "list" THEN [exc |-> "none", val |-> List(SortDesc(x.v))]
    ELSE IF x.ty = "ndarray" THEN [exc |-> "TypeError", val |-> x]
    ELSE [exc |-> "AttributeError", val |-> x]

\* protocols.py:80-91: cycles as given -> the list of [on, off] rows
CycleRows(o) ==
    IF isscalar(o.cycles)
    THEN IF o.Dt_total.ty = "none"
         THEN [exc |-> "TypeError", rows |-> <<>>]
         ELSE [exc |-> "none",
               rows |-> <<<<o.cycles.v[1],
                            o.Dt_total.v[1] - o.cycles.v[1] - o.Dt_delay>>>>]
    ELSE IF o.cycles.ty \in {"list", "ndarray"}
    THEN IF o.cycles.v = <<>> THEN [exc |-> "IndexError", rows |-> <<>>]
         ELSE IF Len(o.cycles.v) < 2 THEN [exc |-> "IndexError", rows |-> <<>>]
         ELSE [exc |-> "none", rows |-> <<<<o.cycles.v[1], o.cycles.v[2]>>>>]
    ELSE IF o.cycles.ty \in {"list2", "ndarray2"}
    THEN IF o.cycles.v = <<>> THEN [exc |-> "IndexError", rows |-> <<>>]
         ELSE [exc |-> "none", rows |-> o.cycles.v]
    ELSE [exc |-> "TypeError", rows |-> <<>>]

\* the schedule with the off durations read from the column of the on durations
SetSchedule_OffsFromOns(o, rows) ==
    LET ct == cycles2times(rows, o.Dt_delay)
    IN [o EXCEPT !.cycles = NdArray2(rows),
                 !.nPulses = Len(rows),
                 !.pulses = ct.pulses,
                 !.Dt_total = Num(ct.Dt_total),
                 !.Dt_delays = Col(ct.pulses, 1),
                 !.Dt_ons = Col(rows, 1),
                 !.Dt_offs = Col(rows, 1)]

\* protocols.py:93-98
SetSchedule(o, rows) ==
    LET ct == cycles2times(rows, o.Dt_delay)
    IN [o EXCEPT !.cycles = NdArray2(rows),
                 !.nPulses = Len(rows),
                 !.pulses = ct.pulses,
                 !.Dt_total = Num(ct.Dt_total),
                 !.Dt_delays = Col(ct.pulses, 1),
                 !.Dt_ons = Col(rows, 1),
                 !.Dt_offs = Col(rows, 2)]

\* protocols.py:100-108
SortPhisVs(o) ==
    LET ph == SortReverse(IF isscalar(o.phis) THEN List(o.phis.v) ELSE o.phis)
        vs == SortReverse(IF isscalar(o.Vs) THEN List(o.Vs.v) ELSE o.Vs)
    IN IF ph.exc # "none" THEN Raised(o, ph.exc)
       ELSE IF vs.exc # "none"
       THEN Raised([o EXCEPT !.phis = ph.val, !.nPhis = Len(ph.val.v)], vs.exc)
       ELSE [o EXCEPT !.phis = ph.val, !.nPhis = Len(ph.val.v),
                      !.Vs = vs.val, !.nVs = Len(vs.val.v)]

-----------------------------------------------------------------------------
(* Pulse generators (genPulse of each class). *)

\* the square pulse holding its boundary value outside the pulse (ext=3)
SquarePulse_Hold(phi, pulse) ==
    spline(<<pulse[1], pulse[2]>>, <<phi * PhiUnit, phi * PhiUnit>>, 1, 3)

\* Protocol.genPulse (protocols.py:145-149): the square pulse
SquarePulse(phi, pulse) ==
    spline(<<pulse[1], pulse[2]>>, <<phi * PhiUnit, phi * PhiUnit>>, 1, 1)

\* protRamp.genPulse (protocols.py:780-786)
RampPulse(o, phi, pulse) ==
    spline(<<pulse[1], pulse[2]>>,
           <<o.phi0.v[1] * PhiUnit, (o.phi0.v[1] + phi) * PhiUnit>>, 1, 1)

\* cos(ws * t), ws = 2 pi f / 1000 rad/ms and t in ticks of 0.1 ms: the
\* angle is f * t / 500 twentieths of a turn
CosWT(f, t) == Cos20[(((f * t) \div 500) % 20) + 1]

\* the number of points of np.linspace(0, Dt_on, int(round(Dt_on*sr/1000))+1)
NSamples(Dt_on, sr) == ((2 * Dt_on * sr + 10000) \div 20000) + 1

\* the i-th point (from 0) of that linspace, in ticks
SampleTime(i, Dt_on, n) == IF n = 1 THEN 0 ELSE (i * Dt_on) \div (n - 1)

\* the two branches exchanged
SinSign_Swapped(startOn) == IF startOn THEN -1 ELSE 1

\* the branch of protSinusoid.genPulse taken for startOn (protocols.py:466-469)
SinSign(startOn) == IF startOn THEN 1 ELSE -1

\* the run whose ws and phi0 protSinusoid.genPulse reads
SinRun(run) == run

\* protSinusoid.genPulse (protocols.py:462-471)
SinusoidPulse(o, run, phi, pulse) ==
    LET Dt_on == pulse[2] - pulse[1]
        n == NSamples(Dt_on, o.sr)
        t(i) == SampleTime(i - 1, Dt_on, n)
        xs == [i \in 1 .. n |-> pulse[1] + t(i)]
        ys == [i \in 1 .. n |->
                  o.phi0.v[SinRun(run) + 1] * PhiUnit
                      + phi * (CosOne + SinSign(o.startOn)
                                            * CosWT(o.ws[SinRun(run) + 1], t(i)))]
    IN spline(xs, ys, 5, 1)

\* protChirp.genPulse (protocols.py:676-689): the number of samples handed to
\* np.linspace is the float (Dt_on*sr/1000)+1, which numpy (1.18 and later)
\* refuses with TypeError
ChirpPulse(o, run, phi, pulse) == [NoneFn EXCEPT !.exc = "TypeError"]

GenPulse(o, run, phi, pulse) ==
    CASE o.protocol = "sinusoid" -> SinusoidPulse(o, run, phi, pulse)
      [] o.protocol = "chirp" -> ChirpPulse(o, run, phi, pulse)
      [] o.protocol = "ramp" -> RampPulse(o, phi, pulse)
      [] OTHER -> SquarePulse(phi, pulse)

-----------------------------------------------------------------------------
(* getRunCycles and genPulseSet. *)

\* the base class's getRunCycles in every class
getRunCycles_Base(o, run) == [rows |-> o.cycles.v, Dt_delay |-> o.Dt_delay]

\* getRunCycles(run), run counted from 0 (protocols.py:128-129, 917-919,
\* 1033-1034)
getRunCycles(o, run) ==
    CASE o.protocol = "shortPulse" ->
             [rows |-> <<<<o.Dt_ons[run + 1], o.Dt_offs[run + 1]>>>>,
              Dt_delay |-> o.Dt_delays[run + 1]]
      [] o.protocol = "recovery" ->
             [rows |-> o.runCycles[run + 1], Dt_delay |-> o.Dt_delays[run + 1]]
      [] OTHER -> [rows |-> o.cycles.v, Dt_delay |-> o.Dt_delay]

\* cycles2times(cycles, Dt_delay)[0] of what getRunCycles returned
TimesOf(rc) == cycles2times(rc.rows, rc.Dt_delay).pulses

\* the pulse intervals of a run
RunPulses(o, run) == TimesOf(getRunCycles(o, run))

\* phi_ts[run][phiInd][pInd] = f: the container has nPulses slots per row
StoreSlot(o, q, f) ==
    IF f.exc = "none" /\ q > o.nPulses THEN [f EXCEPT !.exc = "IndexError"]
    ELSE f

\* one run of the loop of genPulseSet over phis and the run's pulses
RunTable(o, run, ps) ==
    [f \in 1 .. o.nPhis |->
        [q \in 1 .. (IF Len(ps) > o.nPulses THEN Len(ps) ELSE o.nPulses) |->
            IF q > Len(ps) THEN NoneFn
            ELSE StoreSlot(o, q, GenPulse(o, run, o.phis.v[f], ps[q]))]]

\* the nRuns x nPhis x nPulses container as the loop fills it
PulseTable(o) == [r \in 1 .. o.nRuns |-> RunTable(o, r - 1, RunPulses(o, r - 1))]

\* the slots at which the loop raises
BadSlots(tab) ==
    UNION {UNION {{<<r, f, q>> : q \in {q \in DOMAIN tab[r][f] :
                                            tab[r][f][q].exc # "none"}} :
                  f \in DOMAIN tab[r]} : r \in DOMAIN tab}

\* the order in which the loop visits the slots
LoopBefore(i, j) ==
    \/ i[1] < j[1]
    \/ i[1] = j[1] /\ i[2] < j[2]
    \/ i[1] = j[1] /\ i[2] = j[2] /\ i[3] <= j[3]

FirstSlot(bad) == CHOOSE i \in bad : \A j \in bad : LoopBefore(i, j)

\* self.phi_ts = phi_ts, unless the loop raised: the first exception ends it
StoreTable(o, tab, bad) ==
    IF bad = {} THEN [o EXCEPT !.phi_ts = [ty |-> "list", v |-> tab]]
    ELSE Raised(o, tab[FirstSlot(bad)[1]][FirstSlot(bad)[2]][FirstSlot(bad)[3]].exc)

FillTable(o, tab) == StoreTable(o, tab, BadSlots(tab))

\* Protocol.genPulseSet (protocols.py:131-143)
genPulseSet(o) == FillTable(o, PulseTable(o))

\* a call that is reached only if nothing was raised before it
GenPulseSetIfOk(o) == IF Ok(o) THEN genPulseSet(o) ELSE o

-----------------------------------------------------------------------------
(* extraPrep and prepare of each class. *)

\* protStep.extraPrep, protDelta.extraPrep (protocols.py:408-413, 823-828)
StepExtraPrep(o) == genPulseSet([o EXCEPT !.nRuns = 1])

\* protRamp.extraPrep (protocols.py:745-751)
RampExtraPrep(o) ==
    genPulseSet([o EXCEPT !.nRuns = 1,
                          !.cycles = NdArray2([i \in DOMAIN o.Dt_ons |->
                                                  <<o.Dt_ons[i], o.Dt_offs[i]>>])])

\* protCustom.extraPrep (protocols.py:360-370); phi_ft is None, so that
\* genPulseSet falls back to the square pulse
CustomExtraPrep(o) ==
    IF o.phi_ts.ty \in {"absent", "none"}
    THEN genPulseSet([o EXCEPT !.nRuns = 1])
    ELSE [o EXCEPT !.nRuns = 1]

\* the unexpected type reported with another exception
BroadcastPhi0_ValueError(o) ==
    IF o.phi0.ty = "num"
    THEN [o EXCEPT !.phi0 = NdArray([i \in 1 .. o.nRuns |-> o.phi0.v[1]])]
    ELSE IF o.phi0.ty \in {"list", "ndarray"}
    THEN IF Len(o.phi0.v) = o.nRuns THEN o
         ELSE IF o.phi0.v = <<>> THEN Raised(o, "IndexError")
         ELSE [o EXCEPT !.phi0 = NdArray([i \in 1 .. o.nRuns |-> o.phi0.v[1]])]
    ELSE Raised(o, "ValueError")

\* a phi0 list of the wrong length left as it is
BroadcastPhi0_Keep(o) ==
    IF o.phi0.ty = "num"
    THEN [o EXCEPT !.phi0 = NdArray([i \in 1 .. o.nRuns |-> o.phi0.v[1]])]
    ELSE IF o.phi0.ty \in {"list", "ndarray"} THEN o
    ELSE Raised(o, "TypeError")

\* the handling of phi0 in protSinusoid.extraPrep and protChirp.extraPrep
\* (protocols.py:445-453, 661-669); warnings.warn is called there with a
\* type as its category, which is no Warning subclass: TypeError
BroadcastPhi0(o) ==
    IF o.phi0.ty = "num"
    THEN [o EXCEPT !.phi0 = NdArray([i \in 1 .. o.nRuns |-> o.phi0.v[1]])]
    ELSE IF o.phi0.ty \in {"list", "ndarray"}
    THEN IF Len(o.phi0.v) = o.nRuns THEN o
         ELSE IF o.phi0.v = <<>> THEN Raised(o, "IndexError")
         ELSE [o EXCEPT !.phi0 = NdArray([i \in 1 .. o.nRuns |-> o.phi0.v[1]])]
    ELSE Raised(o, "TypeError")

\* max(10000, int(round(10 * f)))
SampleRate(f) == IF 10 * f > 10000 THEN 10 * f ELSE 10000

\* protSinusoid.extraPrep up to the handling of phi0 (protocols.py:431-444);
\* ws[i] holds the frequency fs[i] in Hz and stands for 2 pi fs[i] / 1000
SinusoidRates(o, fs) ==
    [o EXCEPT !.fs = fs, !.ws = fs, !.sr = SampleRate(SeqMax(fs)),
              !.nRuns = Len(fs),
              !.warnings = IF 10000 > SeqMin(o.Dt_ons) * SeqMin(fs)
                           THEN Append(@, "period longer than stimulation")
                           ELSE @]

\* the end of protSinusoid.extraPrep (protocols.py:455-457)
SinusoidGen(o) ==
    IF Ok(o) THEN genPulseSet([o EXCEPT !.t_start = 0, !.t_end = o.Dt_total])
    ELSE o

\* protSinusoid.extraPrep (protocols.py:431-457)
SinusoidExtraPrep(o) == SinusoidGen(BroadcastPhi0(SinusoidRates(o, SortAsc(o.fs))))

\* protChirp.extraPrep up to the handling of phi0 (protocols.py:648-660)
ChirpRates(o) ==
    IF o.f0 = 0 THEN Raised(o, "ZeroDivisionError")
    ELSE [o EXCEPT !.sr = SampleRate(IF o.f0 > o.fT THEN o.f0 ELSE o.fT),
                   !.nRuns = 1,
                   !.warnings = IF 10000 > SeqMin(o.Dt_ons) * o.f0
                                THEN Append(@, "period longer than stimulation")
                                ELSE @]

\* what follows a statement only if it did not raise
BroadcastPhi0IfOk(o) == IF Ok(o) THEN BroadcastPhi0(o) ELSE o

\* protChirp.extraPrep (protocols.py:648-671)
ChirpExtraPrep(o) == GenPulseSetIfOk(BroadcastPhi0IfOk(ChirpRates(o)))

extraPrep(o) ==
    CASE o.protocol \in {"step", "delta"} -> StepExtraPrep(o)
      [] o.protocol = "ramp" -> RampExtraPrep(o)
      [] o.protocol = "custom" -> CustomExtraPrep(o)
      [] o.protocol = "sinusoid" -> SinusoidExtraPrep(o)
      [] o.protocol = "chirp" -> ChirpExtraPrep(o)
      [] OTHER -> o

\* self.extraPrep(), reached only if nothing was raised before it
ExtraPrepIfOk(o) == IF Ok(o) THEN extraPrep(o) ELSE o

\* protocols.py:93-111, once the rows of cycles are known
PrepareRows(o, c) ==
    IF c.exc # "none" THEN Raised(o, c.exc)
    ELSE ExtraPrepIfOk(SortPhisVs(SetSchedule(o, c.rows)))

\* Protocol.prepare (protocols.py:75-111)
BasePrepare(o) == PrepareRows(o, CycleRows(o))

\* the wrapping of a scalar phis or Vs in protDelta.prepare and
\* protRecovery.prepare: np.asarray([x]) (protocols.py:809-817, 1019-1027)
AsArrayPhisVs(o) ==
    [o EXCEPT !.phis = IF isscalar(@) THEN NdArray(@.v) ELSE @,
              !.Vs = IF isscalar(@) THEN NdArray(@.v) ELSE @]

\* phis.sort(reverse=True); Vs.sort(reverse=True) with no wrapping
SortOnly(o) ==
    LET ph == SortReverse(o.phis)
        vs == SortReverse(o.Vs)
    IN IF ph.exc # "none" THEN Raised(o, ph.exc)
       ELSE IF vs.exc # "none"
       THEN Raised([o EXCEPT !.phis = ph.val, !.nPhis = Len(ph.val.v)], vs.exc)
       ELSE [o EXCEPT !.phis = ph.val, !.nPhis = Len(ph.val.v),
                      !.Vs = vs.val, !.nVs = Len(vs.val.v)]

\* protocols.py:801-807: the schedule of the single delta pulse
DeltaSchedule(o, rows, ct) ==
    [o EXCEPT !.cycles = NdArray2(rows),
              !.nPulses = Len(rows),
              !.pulses = ct.pulses,
              !.Dt_total = Num(ct.Dt_total),
              !.Dt_delays = Col(ct.pulses, 1),
              !.Dt_ons = [i \in DOMAIN ct.pulses |->
                             ct.pulses[i][2] - ct.pulses[i][1]],
              !.Dt_offs = [i \in DOMAIN ct.pulses |->
                              (IF i < Len(ct.pulses) THEN ct.pulses[i + 1][1]
                               ELSE ct.Dt_total) - ct.pulses[i][2]]]

\* the off phase computed without the delay
DeltaRows_NoDelay(o) == <<<<o.Dt_on, o.Dt_total.v[1] - o.Dt_on>>>>

\* protocols.py:802: the single [on, off] row
DeltaRows(o) == <<<<o.Dt_on, o.Dt_total.v[1] - o.Dt_delay - o.Dt_on>>>>

\* protDelta.prepare (protocols.py:797-821)
DeltaPrepare(o) ==
    IF o.Dt_total.ty = "none" THEN Raised(o, "TypeError")
    ELSE IF ~(o.Dt_total.v[1] >= o.Dt_delay + o.Dt_on)
    THEN Raised(o, "AssertionError")
    ELSE ExtraPrepIfOk(SortOnly(AsArrayPhisVs(
             DeltaSchedule(o, DeltaRows(o),
                           cycles2times(DeltaRows(o), o.Dt_delay)))))

\* protocols.py:901-908: one run per pulse duration
ShortPulseSchedule(o, pDs) ==
    [o EXCEPT !.pDs = pDs,
              !.nRuns = Len(pDs),
              !.Dt_delays = [i \in DOMAIN pDs |-> o.Dt_delay],
              !.Dt_ons = pDs,
              !.Dt_offs = [i \in DOMAIN pDs |->
                              o.Dt_total.v[1] - o.Dt_delay - pDs[i]],
              !.cycles = NdArray2([i \in DOMAIN pDs |->
                             <<pDs[i], o.Dt_total.v[1] - o.Dt_delay - pDs[i]>>])]

\* protShortPulse.prepare (protocols.py:900-915)
ShortPulsePrepare(o) ==
    IF o.Dt_total.ty = "none" THEN Raised(o, "TypeError")
    ELSE GenPulseSetIfOk(SortOnly(ShortPulseSchedule(o, SortAsc(o.pDs))))

\* protocols.py:990-1017: one run per inter-pulse interval
RecoverySchedule(o, ipis, IPIminD) ==
    [o EXCEPT !.Dt_IPIs = ipis,
              !.nRuns = Len(ipis),
              !.Dt_delays = [i \in DOMAIN ipis |-> o.Dt_delay],
              !.Dt_ons = [i \in DOMAIN ipis |-> o.Dt_on],
              !.Dt_offs = ipis,
              !.cycles = NdArray2([i \in DOMAIN ipis |-> <<o.Dt_on, ipis[i]>>]),
              !.pulses = cycles2times([i \in DOMAIN ipis |-> <<o.Dt_on, ipis[i]>>],
                                      o.Dt_delay).pulses,
              !.runCycles =
                  [i \in DOMAIN ipis |->
                      <<<<o.Dt_on, ipis[i]>>,
                        <<o.Dt_on,
                          IF o.Dt_total.v[1] < IPIminD THEN ipis[i]
                          ELSE o.Dt_total.v[1] - IPIminD>>>>],
              !.t_start = 0,
              !.t_end = o.Dt_total,
              !.warnings = IF o.Dt_total.v[1] < IPIminD
                           THEN Append(@, "insufficient run time")
                           ELSE @]

\* protRecovery.prepare (protocols.py:989-1031)
RecoveryPrepare(o) ==
    IF o.Dt_total.ty = "none" THEN Raised(o, "TypeError")
    ELSE GenPulseSetIfOk(SortOnly(AsArrayPhisVs(
             RecoverySchedule(o, SortAsc(o.Dt_IPIs),
                              o.Dt_delay + 2 * o.Dt_on + SeqMax(o.Dt_IPIs)))))

prepare(o) ==
    CASE o.protocol = "delta" -> DeltaPrepare(o)
      [] o.protocol = "shortPulse" -> ShortPulsePrepare(o)
      [] o.protocol = "recovery" -> RecoveryPrepare(o)
      [] OTHER -> BasePrepare(o)

-----------------------------------------------------------------------------
(* Construction and selection (protocols.py:40-53, 1096-1123). *)

\* a parameter set: the attributes setParams gives the object
ParamSet(cycles, Dt_delay, Dt_total, phis, Vs, x) ==
    [cycles |-> cycles, Dt_delay |-> Dt_delay, Dt_total |-> Dt_total,
     phis |-> phis, Vs |-> Vs, fs |-> x.fs, phi0 |-> x.phi0,
     startOn |-> x.startOn, f0 |-> x.f0, fT |-> x.fT, Dt_on |-> x.Dt_on,
     pDs |-> x.pDs, Dt_IPIs |-> x.Dt_IPIs]

\* the class-specific parameters at the value every class but one ignores
Extra == [fs |-> <<500>>, phi0 |-> Num(0), startOn |-> FALSE, f0 |-> 500,
          fT |-> 1000, Dt_on |-> 5, pDs |-> <<5>>, Dt_IPIs |-> <<10>>]

\* the params argument: None, an empty parameter set, or a parameter set
NoParams == [ty |-> "none", val |-> ParamSet(None_, 0, None_, None_, None_, Extra)]

EmptyParams ==
    [ty |-> "empty", val |-> ParamSet(None_, 0, None_, None_, None_, Extra)]

Params(ps) == [ty |-> "params", val |-> ps]

\* protParams[name], the default parameters of a protocol
protParams(name) ==
    Params(ParamSet(List2(<<<<10, 5>>>>), 10, Num(40), List(<<1, 3>>),
                    List(<<-70>>),
                    [Extra EXCEPT !.fs = <<1000, 500>>, !.pDs = <<10, 5>>,
                                  !.Dt_IPIs = <<20, 10>>]))

\* PyRhOobject.setParams(params): one attribute per parameter
setParams(o, params) ==
    IF params.ty = "empty" THEN o
    ELSE [o EXCEPT !.cycles = params.val.cycles,
                   !.Dt_delay = params.val.Dt_delay,
                   !.Dt_total = params.val.Dt_total,
                   !.phis = params.val.phis,
                   !.Vs = params.val.Vs,
                   !.fs = params.val.fs,
                   !.phi0 = params.val.phi0,
                   !.startOn = params.val.startOn,
                   !.f0 = params.val.f0,
                   !.fT = params.val.fT,
                   !.Dt_on = params.val.Dt_on,
                   !.pDs = params.val.pDs,
                   !.Dt_IPIs = params.val.Dt_IPIs]

\* the statements of __init__ after prepare() (protocols.py:49-53)
AfterPrepare(o) ==
    IF Ok(o)
    THEN [o EXCEPT !.t_start = 0, !.t_end = o.Dt_total,
                   !.phi_ts = [ty |-> "none", v |-> <<>>]]
    ELSE o

\* Protocol.__init__(params) of the class registered as name
\* (protocols.py:40-53); exc # "none": the constructor raised
ProtocolInit(name, params) ==
    AfterPrepare(prepare(setParams(ClassAttrs(name),
                                   IF params.ty = "none" THEN protParams(name)
                                   ELSE params)))

\* protList
protList == {ProtocolNames[i] : i \in DOMAIN ProtocolNames}

\* the truth value of params in "if params:" (protocols.py:1118)
Truthy(params) == params.ty = "params"

\* the registry indexed with no membership test
selectProtocol_NoTest(name, params) ==
    IF name \in protList
    THEN ProtocolInit(name, IF Truthy(params) THEN params ELSE protParams(name))
    ELSE Raised(NoProt, "KeyError")

\* the params argument ignored
selectProtocol_Defaults(name, params) ==
    IF name \in protList
    THEN ProtocolInit(name, protParams(name))
    ELSE Raised(NoProt, "NotImplementedError")

\* selectProtocol(protocol, params) (protocols.py:1115-1123)
selectProtocol(name, params) ==
    IF name \in protList
    THEN ProtocolInit(name, IF Truthy(params) THEN params ELSE protParams(name))
    ELSE Raised(NoProt, "NotImplementedError")

-----------------------------------------------------------------------------
(* Iteration (protocols.py:61-73). *)

\* Protocol.__iter__
ProtocolIter(o) == [o EXCEPT !.run = 0]

\* the test of __next__ failing one run earlier
ProtocolNext_OneLess(o) ==
    IF o.run < 0 THEN [obj |-> o, exc |-> "AttributeError", item |-> <<>>]
    ELSE IF o.run + 1 >= o.nRuns
    THEN [obj |-> [o EXCEPT !.run = @ + 1], exc |-> "StopIteration",
          item |-> <<>>]
    ELSE [obj |-> [o EXCEPT !.run = @ + 1], exc |-> "none",
          item |-> <<getRunCycles(o, o.run)>>]

\* Protocol.__next__: the object after the call, what it raised and the
\* item it returned
ProtocolNext(o) ==
    IF o.run < 0 THEN [obj |-> o, exc |-> "AttributeError", item |-> <<>>]
    ELSE IF o.run + 1 > o.nRuns
    THEN [obj |-> [o EXCEPT !.run = @ + 1], exc |-> "StopIteration",
          item |-> <<>>]
    ELSE [obj |-> [o EXCEPT !.run = @ + 1], exc |-> "none",
          item |-> <<getRunCycles(o, o.run)>>]

-----------------------------------------------------------------------------
(* Protocol.getStimArray (protocols.py:170-206).  A sample time and a      *)
(* sample value are rationals <<numerator, denominator>> in lowest terms,  *)
(* because np.linspace cuts a block into equal parts that need not be      *)
(* whole ticks.                                                            *)

Abs(x) == IF x < 0 THEN -x ELSE x

RECURSIVE Gcd(_, _)
Gcd(a, b) == IF b = 0 THEN a ELSE Gcd(b, a % b)

\* n / d with d > 0, in lowest terms
Rat(n, d) == <<n \div Gcd(Abs(n), d), d \div Gcd(Abs(n), d)>>

\* round(n / d) of Python 3 for n >= 0 and d > 0: a tie goes to the even
\* neighbour
PyRound(n, d) ==
    IF 2 * (n % d) < d THEN n \div d
    ELSE IF 2 * (n % d) > d THEN (n \div d) + 1
    ELSE IF (n \div d) % 2 = 0 THEN n \div d
    ELSE (n \div d) + 1

\* nSteps = int(round(((end-start)/dt)+1)) (protocols.py:183, 191)
NSteps(len, dt) == PyRound(len + dt, dt)

\* the i-th point (from 0) of np.linspace(start, start + len, n, endpoint=True)
LinspaceAt(start, len, n, i) ==
    IF n = 1 THEN Rat(start, 1) ELSE Rat(start * (n - 1) + i * len, n - 1)

\* phi_t(t) for t = t[1] / t[2].  Outside the data ext = 1 returns 0 and
\* ext = 3 the boundary value.  A spline of degree 1 through two points is
\* the line through them.  A spline of higher degree is evaluated at its
\* knots only, where it takes the data value.
SplineAt(f, t) ==
    IF t[1] < f.xs[1] * t[2]
    THEN (IF f.ext = 1 THEN Rat(0, 1) ELSE Rat(f.ys[1], 1))
    ELSE IF t[1] > f.xs[Len(f.xs)] * t[2]
    THEN (IF f.ext = 1 THEN Rat(0, 1) ELSE Rat(f.ys[Len(f.xs)], 1))
    ELSE IF f.k = 1 /\ Len(f.xs) = 2
    THEN Rat(f.ys[1] * t[2] * (f.xs[2] - f.xs[1])
                 + (f.ys[2] - f.ys[1]) * (t[1] - f.xs[1] * t[2]),
             t[2] * (f.xs[2] - f.xs[1]))
    ELSE Rat(f.ys[CHOOSE i \in DOMAIN f.xs : f.xs[i] * t[2] = t[1]], 1)

\* np.zeros_like(np.linspace(0, Dt_delay, nSteps)) (protocols.py:182-185)
DelayBlock(Dt_delay, dt) == [i \in 1 .. NSteps(Dt_delay, dt) |-> Rat(0, 1)]

\* phiPulse[1:] with the whole of phiPulse kept
PulseBlock_KeepFirst(f, start, len, dt) ==
    [i \in 1 .. NSteps(len, dt) |->
        SplineAt(f, LinspaceAt(start, len, NSteps(len, dt), i - 1))]

\* phiPulse[1:] of one pass of the loop (protocols.py:189-195, 203)
PulseBlock(f, start, len, dt) ==
    [i \in 1 .. (NSteps(len, dt) - 1) |->
        SplineAt(f, LinspaceAt(start, len, NSteps(len, dt), i))]

\* the loop over the pulses from pulse p on, start being the end of the
\* block before (protocols.py:188-203)
RECURSIVE PulseBlocks(_, _, _, _, _)
PulseBlocks(fs, rows, p, start, dt) ==
    IF p > Len(rows) THEN <<>>
    ELSE PulseBlock(fs[p], start, rows[p][1] + rows[p][2], dt)
             \o PulseBlocks(fs, rows, p + 1, start + rows[p][1] + rows[p][2], dt)

\* the safeguard left out
Safeguard_None(arr) == arr

\* phi_tV[np.ma.where(phi_tV < 0)] = 0 (protocols.py:205)
Safeguard(arr) ==
    [i \in DOMAIN arr |-> IF arr[i][1] < 0 THEN Rat(0, 1) ELSE arr[i]]

\* protocols.py:176-206, phi_ts being self.phi_ts[run][phiInd][:]
StimArrayOf(phi_ts, rc, dt) ==
    IF Len(phi_ts) # Len(rc.rows) THEN [exc |-> "AssertionError", arr |-> <<>>]
    ELSE [exc |-> "none",
          arr |-> Safeguard(DelayBlock(rc.Dt_delay, dt)
                                \o PulseBlocks(phi_ts, rc.rows, 1, rc.Dt_delay, dt))]

\* Protocol.getStimArray(run, phiInd, dt) for 0 <= run < nRuns and
\* 0 <= phiInd < nPhis (protocols.py:170-206): phi_ts is None until
\* genPulseSet has been called on the object
getStimArray(o, run, phiInd, dt) ==
    IF o.phi_ts.ty # "list" THEN [exc |-> "TypeError", arr |-> <<>>]
    ELSE StimArrayOf(o.phi_ts.v[run + 1][phiInd + 1], getRunCycles(o, run), dt)

-----------------------------------------------------------------------------
(* protDelta.finish (protocols.py:830-841). *)

\* PC.V and RhO.E are Python numbers ("num"), numpy scalars ("npnum") or
\* None.  A Python division by zero raises ZeroDivisionError, which is
\* caught and reported; Gmax is then unbound at protocols.py:839.  A numpy
\* division by zero returns inf or nan and raises nothing.
DeltaFinish(V, E, I_peak, verbose) ==
    IF V.ty = "none"
    THEN [exc |-> "none", printed |-> <<>>, gbar_est |-> <<>>]
    ELSE IF V.v[1] - E = 0 /\ V.ty = "num"
    THEN [exc |-> "UnboundLocalError",
          printed |-> <<"The clamp voltage must be different to the reversal potential!">>,
          gbar_est |-> <<>>]
    ELSE [exc |-> "none",
          printed |-> IF verbose > 0
                      THEN <<"Estimated maximum conductance (g)">> ELSE <<>>,
          gbar_est |-> <<I_peak * 1000000, V.v[1] - E>>]

-----------------------------------------------------------------------------
(* The protocol state machine: one caller holding at most one object.      *)

NoCall == [op |-> "", name |-> "", params |-> NoParams, exc |-> "none",
           V |-> None_, E |-> 0, gbar_est |-> <<>>, items |-> <<>>,
           run |-> 0, phiInd |-> 0, dt |-> 0, stim |-> <<>>]

CycleChoices ==
    {Num(10), List(<<10, 5>>), List2(<<<<10, 5>>>>), NdArray2(<<<<5, 20>>>>),
     List2(<<<<10, 5>>, <<5, 10>>>>), List2(<<<<0, 10>>>>), None_, Other}

DelayChoices == {0, 10}

TotalChoices == {None_, Num(40)}

PhiChoices == {Num(3), Num(-2), List(<<1, 3>>), NdArray(<<1, 3>>)}

VChoices == {Num(-70), List(<<-70, 10>>)}

ExtraChoices(name) ==
    CASE name = "sinusoid" ->
             {[Extra EXCEPT !.fs = f, !.phi0 = p, !.startOn = b] :
                  f \in {<<500>>, <<1000, 500>>},
                  p \in {Num(1), List(<<1, 2>>), None_, Other},
                  b \in BOOLEAN}
      [] name = "delta" -> {[Extra EXCEPT !.Dt_on = d] : d \in {0, 5}}
      [] name = "shortPulse" ->
             {[Extra EXCEPT !.pDs = d] : d \in {<<5>>, <<10, 5>>}}
      [] name = "recovery" ->
             {[Extra EXCEPT !.Dt_IPIs = d] : d \in {<<10>>, <<20, 10>>}}
      [] name = "chirp" ->
             {[Extra EXCEPT !.f0 = f, !.phi0 = p] :
                  f \in {0, 500}, p \in {Num(0), None_, Other}}
      [] OTHER -> {Extra}

ArgChoices(name) ==
    {NoParams, EmptyParams}
    \cup {Params(ParamSet(c, d, T, ph, vs, x)) :
              c \in (IF name \in {"delta", "shortPulse", "recovery"}
                     THEN {None_} ELSE CycleChoices),
              d \in DelayChoices,
              T \in (IF name \in {"delta", "recovery"}
                     THEN TotalChoices \cup {Num(12)} ELSE TotalChoices),
              ph \in PhiChoices, vs \in VChoices, x \in ExtraChoices(name)}

NameChoices == protList \cup {"rectifier", "Step"}

InitProtocol ==
    /\ cells = [g \in Gids |->
                  [owner |-> 0, kind |-> "bio",
                   secs |-> <<Section(P0, Px, 2, 1, 1, FALSE)>>]]
    /\ epoint = Pe
    /\ ransample = [g \in Gids |-> 0]
    /\ lfp = [r \in Ranks |-> NoLfp]
    /\ ht = 0
    /\ events = {}
    /\ running = FALSE
    /\ vlfp = [r \in Ranks |-> <<>>]
    /\ nreduce = [r \in Ranks |-> 0]
    /\ prot = NoProt
    /\ call = NoCall
    /\ printed = <<>>

\* what the caller holds after a call that was to return an object
Held(o) == IF Ok(o) THEN o ELSE NoProt

\* the caller's state after the call op(name, params) ended as o
Return(op, name, params, o) ==
    /\ prot' = Held(o)
    /\ call' = [NoCall EXCEPT !.op = op, !.name = name, !.params = params,
                              !.exc = o.exc]

\* protocols[name](params), the class called directly
NewProtocol ==
    /\ call.op = ""
    /\ \E name \in protList : \E params \in ArgChoices(name) :
           Return("init", name, params, ProtocolInit(name, params))
    /\ UNCHANGED printed
    /\ UNCHANGED lfpVars

\* selectProtocol(name, params)
SelectProtocol ==
    /\ call.op = ""
    /\ \E name \in NameChoices :
       \E params \in ArgChoices(IF name \in protList THEN name ELSE "step") :
           Return("selectProtocol", name, params, selectProtocol(name, params))
    /\ UNCHANGED printed
    /\ UNCHANGED lfpVars

\* the caller's state after prot.genPulseSet() ended as o
Generated(o) ==
    /\ prot' = IF Ok(o) THEN o ELSE prot
    /\ call' = [call EXCEPT !.op = "genPulseSet", !.exc = o.exc]

\* prot.genPulseSet(), the object's own generator
GenPulseSet ==
    /\ call.op \in {"init", "selectProtocol"}
    /\ prot.protocol # ""
    /\ Generated(genPulseSet(prot))
    /\ UNCHANGED printed
    /\ UNCHANGED lfpVars

\* prot.finish(PC, RhO) on a delta protocol
Finish ==
    /\ call.op \in {"init", "selectProtocol"}
    /\ prot.protocol = "delta"
    /\ \E V \in {None_, Num(-70), Num(0), [ty |-> "npnum", v |-> <<0>>]} :
       \E verbose \in {0, 1} :
           LET r == DeltaFinish(V, 0, 2, verbose)
           IN /\ call' = [call EXCEPT !.op = "finish", !.exc = r.exc,
                                      !.V = V, !.E = 0,
                                      !.gbar_est = r.gbar_est]
              /\ printed' = printed \o r.printed
    /\ UNCHANGED prot
    /\ UNCHANGED lfpVars

\* the calls after which the caller goes on to iterate
Iterable == {"init", "selectProtocol", "iter", "next"}

\* iter(prot)
Iter ==
    /\ call.op \in Iterable
    /\ prot.protocol # ""
    /\ prot' = ProtocolIter(prot)
    /\ call' = [call EXCEPT !.op = "iter", !.exc = "none", !.items = <<>>]
    /\ UNCHANGED printed
    /\ UNCHANGED lfpVars

\* the caller's state after next(prot) ended as r
Yielded(r) ==
    /\ prot' = r.obj
    /\ call' = [call EXCEPT !.op = "next", !.exc = r.exc,
                            !.items = @ \o r.item]

\* next(prot), also before iter and after the iteration has ended
NextRun ==
    /\ call.op \in Iterable
    /\ prot.protocol # ""
    /\ prot.run < prot.nRuns + MaxNextAfterEnd
    /\ Yielded(ProtocolNext(prot))
    /\ UNCHANGED printed
    /\ UNCHANGED lfpVars

\* the caller's state after prot.prepare() ended as o; an exception leaves
\* the object with the assignments made before it
Prepared(o) ==
    /\ prot' = [o EXCEPT !.exc = "none"]
    /\ call' = [call EXCEPT !.op = "prepare", !.exc = o.exc]

\* prot.prepare() on the object the constructor returned, no parameter
\* having been changed
Prepare ==
    /\ call.op \in {"init", "selectProtocol"}
    /\ prot.protocol # ""
    /\ Prepared(prepare(prot))
    /\ UNCHANGED printed
    /\ UNCHANGED lfpVars

\* the sampling steps (in ticks) a caller asks for; the sinusoid, a spline
\* of degree 5, is sampled at its own rate, where every sample is a knot
DtChoices(o) == IF o.protocol = "sinusoid" THEN {1} ELSE {1, 2, 4}

\* the caller's state after prot.getStimArray(run, phiInd, dt) ended as r
Sampled(run, phiInd, dt, r) ==
    call' = [call EXCEPT !.op = "getStimArray", !.exc = r.exc, !.run = run,
                         !.phiInd = phiInd, !.dt = dt, !.stim = r.arr]

\* prot.getStimArray(run, phiInd, dt)
GetStimArray ==
    /\ call.op \in {"init", "selectProtocol", "genPulseSet"}
    /\ prot.protocol # ""
    /\ \E run \in 0 .. (prot.nRuns - 1) : \E phiInd \in 0 .. (prot.nPhis - 1) :
       \E dt \in DtChoices(prot) :
           Sampled(run, phiInd, dt, getStimArray(prot, run, phiInd, dt))
    /\ UNCHANGED prot
    /\ UNCHANGED printed
    /\ UNCHANGED lfpVars

NextProtocol ==
    \/ NewProtocol
    \/ SelectProtocol
    \/ GenPulseSet
    \/ Finish
    \/ Iter
    \/ NextRun
    \/ GetStimArray
    \/ Prepare

SpecProtocol == InitProtocol /\ [][NextProtocol]_vars

-----------------------------------------------------------------------------
(* The LFP state machine. *)

InitLFP ==
    /\ cells \in Networks
    /\ epoint \in EpointChoices
    /\ ransample \in [Gids -> RanChoices]
    /\ lfp = [r \in Ranks |-> NoLfp]
    /\ ht = 0
    /\ events = {}
    /\ running = FALSE
    /\ vlfp = [r \in Ranks |-> <<>>]
    /\ nreduce = [r \in Ranks |-> 0]
    /\ prot = NoProt
    /\ call = NoCall
    /\ printed = <<>>

\* LFP(label, pc, pop_gid_dict, pos, ...) on rank r
Construct(r) ==
    /\ ~running
    /\ lfp[r].status = "none"
    /\ \E m \in MaxEDistChoices :
           lfp' = [lfp EXCEPT ![r] = SetupLfp(r, cells, epoint, m, ransample)]
    /\ UNCHANGED <<cells, epoint, ransample, ht, events, running, vlfp, nreduce>>
    /\ UNCHANGED protVars

\* h.finitialize(): the FInitializeHandler of type 1 registered at lfp.py:94
\* runs sample_lfp on every rank
Finitialize ==
    /\ ~running
    /\ \A r \in Ranks : lfp[r].status = "ready"
    /\ running' = TRUE
    /\ ht' = 0
    /\ sample_lfp(0)
    /\ UNCHANGED <<cells, epoint, ransample>>
    /\ UNCHANGED protVars

\* the simulator delivers the next scheduled event
DeliverEvent ==
    /\ running
    /\ Len(lfp[0].t) < MaxSamples
    /\ \E te \in events :
           /\ \A u \in events : te <= u
           /\ ht' = te
           /\ sample_lfp(te)
    /\ UNCHANGED <<cells, epoint, ransample, running>>
    /\ UNCHANGED protVars

NextLFP ==
    \/ \E r \in Ranks : Construct(r)
    \/ Finitialize
    \/ DeliverEvent

SpecLFP == InitLFP /\ [][NextLFP]_vars

-----------------------------------------------------------------------------
(* Claims about the LFP estimator. *)

Constructed == {r \in Ranks : lfp[r].status # "none"}

StoresOf(r) == {lfp[r].stored[n] : n \in DOMAIN lfp[r].stored}

SecOf(w) == cells[w.gid].secs[w.sec]

\* C1: each term of the local sum of pos_lfp weights the membrane current of
\* a segment by the coefficient setup_lfp_coeffs computed for that same
\* segment, also in a cell with more than one section.
C1_OwnCoefficient ==
    \A r \in Ranks : \A n \in DOMAIN vlfp[r] :
        \E w \in StoresOf(r) :
            /\ w.gid = vlfp[r][n].gid
            /\ w.sec = vlfp[r][n].sec
            /\ w.seg = vlfp[r][n].seg
            /\ w.k = vlfp[r][n].k

\* C6: a segment of length 0 gets the coefficient 0 and its computation
\* raises no numeric exception.
C6_ZeroLengthIsZero ==
    \A r \in Constructed :
        /\ lfp[r].err.kind # "none" =>
               cells[lfp[r].err.gid].secs[lfp[r].err.sec].L # 0
        /\ \A w \in StoresOf(r) : SecOf(w).L = 0 => w.k = Zero

\* C7: a segment whose node coincides with the electrode (rd = 0) gets a
\* finite non-negative coefficient and its computation raises nothing.
C7_AtElectrodeIsFinite ==
    \A r \in Constructed :
        /\ lfp[r].err.kind # "none" =>
               \/ rd2Of(cells[lfp[r].err.gid].secs[lfp[r].err.sec],
                        lfp[r].err.seg, epoint) # 0
               \/ cells[lfp[r].err.gid].secs[lfp[r].err.sec].L = 0
        /\ \A w \in StoresOf(r) :
               rd2Of(SecOf(w), w.seg, epoint) = 0 => w.k.kind \in {"k", "zero"}

\* C8: the coefficient stored for a segment of a distal cell (type 2) is
\* 1/fdst times the base line-source coefficient of that segment, the one
\* stored for a segment of a proximal cell (type 1) is the base coefficient,
\* and a base coefficient the NaN guard replaced by 0 is stored as 0.
C8_DistalScaling ==
    \A r \in Constructed : \A w \in StoresOf(r) :
        LET raw == LineSource(SecOf(w), w.seg, epoint)
        IN /\ w.lfptype \in {1, 2}
           /\ \E p \in DOMAIN lfp[r].lfp_ids : \E i \in DOMAIN lfp[r].lfp_ids[p] :
                  /\ lfp[r].lfp_ids[p][i] = w.gid
                  /\ lfp[r].lfp_types[p][i] = w.lfptype
           /\ raw.kind = "nan" => w.k = Zero
           /\ (raw.kind = "k" /\ w.lfptype = 1) => w.k = raw
           /\ (raw.kind = "k" /\ w.lfptype = 2) =>
                  /\ [w.k EXCEPT !.mulN = 1, !.mulD = 1] = raw
                  /\ w.k.mulN * FdstNum = w.k.mulD * FdstDen

C8_Witness ==
    \E r \in Ranks :
        /\ lfp[r].status = "ready"
        /\ \E w \in StoresOf(r) : w.lfptype = 2 /\ w.k.kind = "k"
        /\ \E w \in StoresOf(r) :
               /\ w.lfptype = 2
               /\ LineSource(SecOf(w), w.seg, epoint).kind = "nan"
               /\ w.k = Zero
        /\ \E w \in StoresOf(r) : w.lfptype = 1 /\ w.k.kind = "k"

-----------------------------------------------------------------------------
(* Claims about the protocols. *)

\* a constructor call has just returned an object to the caller
Returned == call.op \in {"init", "selectProtocol"} /\ call.exc = "none"

\* the parameters the constructor read: those given, or the defaults for None
GivenParams ==
    IF call.params.ty = "none" THEN protParams(call.name) ELSE call.params

\* C2: after Protocol.__init__ returns, phi_ts is a fully populated
\* nRuns x nPhis x nPulses container of stimulus functions: phi_ts is not
\* None and no entry of it is None.
C2_PhiTsPopulated ==
    Returned =>
        /\ prot.phi_ts.ty = "list"
        /\ Len(prot.phi_ts.v) = prot.nRuns
        /\ \A r \in DOMAIN prot.phi_ts.v :
               /\ Len(prot.phi_ts.v[r]) = prot.nPhis
               /\ \A f \in DOMAIN prot.phi_ts.v[r] :
                      /\ Len(prot.phi_ts.v[r][f]) = prot.nPulses
                      /\ \A q \in DOMAIN prot.phi_ts.v[r][f] :
                             prot.phi_ts.v[r][f][q] # NoneFn

\* the names of the registry "protocols" (protocols.py:1096-1103)
Supported == {ProtocolNames[i] : i \in DOMAIN ProtocolNames}

\* C3: selectProtocol(name, params) raises NotImplementedError, and no other
\* error, for every name that is not a supported protocol name.
C3_UnsupportedRaises ==
    (call.op = "selectProtocol" /\ call.name \notin Supported) =>
        call.exc = "NotImplementedError" /\ prot = NoProt

C3_Witness ==
    /\ call.op = "selectProtocol"
    /\ call.name = "rectifier"
    /\ call.params.ty = "params"
    /\ call.exc = "NotImplementedError"

TruthyParams ==
    IF call.params.ty = "params" THEN call.params ELSE protParams(call.name)

C5_FinishReturns ==
    call.op = "finish" =>
        /\ call.V.ty = "none" =>
               call.exc = "none" /\ call.gbar_est = <<>> /\ printed = <<>>
        /\ (call.V.ty # "none" /\ call.V.v[1] - call.E = 0) =>
               /\ call.exc = "none"
               /\ \E i \in DOMAIN printed :
                      printed[i] = "The clamp voltage must be different to the reversal potential!"

\* the classes that inherit Protocol.prepare
InheritPrepare == {"step", "sinusoid", "chirp", "ramp", "custom"}

\* the object was prepared by Protocol.prepare from a single on/off pair
SinglePair ==
    /\ Returned
    /\ call.name \in InheritPrepare
    /\ call.params.ty = "params"
    /\ call.params.val.cycles.ty \in {"list2", "ndarray2"}
    /\ Len(call.params.val.cycles.v) = 1

\* C9: for cycles = [[Dt_on, Dt_off]] and delay d, Protocol.prepare yields
\* nPulses = 1, pulses = [[d, d + Dt_on]], Dt_total = d + Dt_on + Dt_off,
\* Dt_delays = [d], Dt_ons = [Dt_on] and Dt_offs = [Dt_off].
C9_SinglePairSchedule ==
    SinglePair =>
        LET Dt_on == call.params.val.cycles.v[1][1]
            Dt_off == call.params.val.cycles.v[1][2]
            d == call.params.val.Dt_delay
        IN /\ prot.nPulses = 1
           /\ prot.pulses = <<<<d, d + Dt_on>>>>
           /\ prot.Dt_total = Num(d + Dt_on + Dt_off)
           /\ prot.Dt_delays = <<d>>
           /\ prot.Dt_ons = <<Dt_on>>
           /\ prot.Dt_offs = <<Dt_off>>

C9_Witness ==
    /\ SinglePair
    /\ call.name = "step"
    /\ call.params.val.Dt_delay > 0
    /\ call.params.val.cycles.v[1][1] # call.params.val.cycles.v[1][2]
    /\ prot.pulses # <<>>

\* the value the sinusoid takes t ticks into a pulse of run r (from 1) at
\* intensity phi, as the statement of C10 gives it
SinusoidAt(r, phi, t) ==
    prot.phi0.v[r] * PhiUnit
        + phi * (IF prot.startOn THEN CosOne + CosWT(prot.ws[r], t)
                 ELSE CosOne - CosWT(prot.ws[r], t))

\* C10: the function protSinusoid.genPulse(run, phi, pulse) returns has its
\* sample times from pStart to pEnd, equals
\* phi0[run] + 0.5*phi*(1 - cos(ws[run]*t)) at every sample time pStart + t
\* when startOn is false and phi0[run] + 0.5*phi*(1 + cos(ws[run]*t)) when
\* startOn is true, and is 0 at every time outside [pStart, pEnd].
C10_SinusoidSamples ==
    (prot.protocol = "sinusoid" /\ prot.phi_ts.ty = "list") =>
        \A r \in DOMAIN prot.phi_ts.v :
        \A f \in DOMAIN prot.phi_ts.v[r] :
        \A q \in DOMAIN prot.phi_ts.v[r][f] :
            LET fn == prot.phi_ts.v[r][f][q]
                pStart == prot.pulses[q][1]
                pEnd == prot.pulses[q][2]
            IN /\ fn.xs[1] = pStart
               /\ fn.xs[Len(fn.xs)] = pEnd
               /\ \A i \in DOMAIN fn.xs :
                      EvalAt(fn, fn.xs[i]) =
                          SinusoidAt(r, prot.phis.v[f], fn.xs[i] - pStart)
               /\ \A x \in ((pStart - 2) .. (pStart - 1))
                              \cup ((pEnd + 1) .. (pEnd + 2)) :
                      EvalAt(fn, x) = 0

\* two runs at different frequencies and offsets, starting on
C10_Witness ==
    /\ prot.protocol = "sinusoid"
    /\ prot.phi_ts.ty = "list"
    /\ prot.startOn
    /\ prot.nRuns = 2
    /\ prot.phi0.v[1] # prot.phi0.v[2]
    /\ prot.nPhis = 2
    /\ \E i \in DOMAIN prot.phi_ts.v[2][1][1].xs :
           prot.phi_ts.v[2][1][1].ys[i] # prot.phi_ts.v[1][1][1].ys[i]

\* a constructor call has just ended, with parameters given
Constructing == call.op \in {"init", "selectProtocol"} /\ call.params.ty = "params"

\* the given parameters take prepare as far as the handling of phi0
ReachesPhi0 ==
    /\ call.params.val.cycles.ty \in {"list2", "ndarray2"}
    /\ call.params.val.phis.ty = "list"
    /\ call.params.val.Vs.ty = "list"
    /\ call.name = "chirp" => call.params.val.f0 # 0

\* C11: Protocol.prepare raises TypeError when cycles is neither a scalar
\* nor a list, tuple or array, and protSinusoid.extraPrep and
\* protChirp.extraPrep raise TypeError when phi0 is neither a number nor a
\* list, tuple or array.
C11_UnexpectedTypeRaises ==
    Constructing =>
        /\ (/\ call.name \in InheritPrepare
            /\ call.params.val.cycles.ty \in {"none", "other"})
               => call.exc = "TypeError"
        /\ (/\ call.name \in {"sinusoid", "chirp"}
            /\ ReachesPhi0
            /\ call.params.val.phi0.ty \in {"none", "other"})
               => call.exc = "TypeError"

C11_Witness ==
    /\ Constructing
    /\ call.name = "sinusoid"
    /\ ReachesPhi0
    /\ call.params.val.phi0.ty = "other"
    /\ call.exc = "TypeError"

\* the gids of a population that rank r selected, as a set
IdsOf(r, pop) == {lfp[r].lfp_ids[pop][i] : i \in DOMAIN lfp[r].lfp_ids[pop]}

Pops == {PopNames[i] : i \in DOMAIN PopNames}

\* C12: after setup_lfp no gid that is absent on the rank, no artificial
\* cell and no reduced cell is in any population's lfp_ids, whatever its
\* distance to the electrode and its random sample.
C12_OnlyPresentBiophysical ==
    \A r \in Constructed : \A pop \in Pops : \A g \in IdsOf(r, pop) :
        cells[g].owner = r /\ cells[g].kind = "bio"

\* a rank that selected a cell and left out an artificial or reduced cell of
\* its own within maxEDist, and an absent gid whose sample is below fdst
C12_Witness ==
    \E r \in Ranks : \E g \in Gids : \E x \in Gids :
        /\ lfp[r].status = "ready"
        /\ g \in IdsOf(r, "A") \cup IdsOf(r, "B")
        /\ x \notin IdsOf(r, "A") \cup IdsOf(r, "B")
        /\ \/ /\ cells[x].owner = r
              /\ cells[x].kind \in {"art", "reduced"}
              /\ Dist2(cells[x].secs[1].p0, epoint) < Sq(lfp[r].maxEDist)
           \/ /\ cells[x].owner # r
              /\ cells[x].kind = "bio"
              /\ ransample[x] < FdstNum

\* the type rank r recorded for gid g in population pop, 0 if not selected
TypeOf(r, pop, g) ==
    IF g \in IdsOf(r, pop)
    THEN lfp[r].lfp_types[pop][CHOOSE i \in DOMAIN lfp[r].lfp_ids[pop] :
                                   lfp[r].lfp_ids[pop][i] = g]
    ELSE 0

Near(r, g) == Dist2(cells[g].secs[1].p0, epoint) < Sq(lfp[r].maxEDist)

\* C13: an eligible cell is selected as proximal (1) exactly when its first
\* soma point is at a distance strictly less than maxEDist from the
\* electrode, otherwise as distal (2) exactly when its sample is strictly
\* less than fdst, otherwise not at all; every entry of lfp_types is 1 or 2;
\* lfp_ids, lfp_types and lfp_coeffs have the same length per population.
C13_SelectionRule ==
    \A r \in Ranks : lfp[r].status = "ready" =>
        \A pop \in Pops :
            /\ Len(lfp[r].lfp_ids[pop]) = Len(lfp[r].lfp_types[pop])
            /\ Len(lfp[r].lfp_ids[pop]) = Len(lfp[r].lfp_coeffs[pop])
            /\ \A i \in DOMAIN lfp[r].lfp_types[pop] :
                   lfp[r].lfp_types[pop][i] \in {1, 2}
            /\ \A n \in DOMAIN pop_gid_dict[pop] :
                   LET g == pop_gid_dict[pop][n]
                   IN (cells[g].owner = r /\ cells[g].kind = "bio") =>
                          /\ TypeOf(r, pop, g) = 1 <=> Near(r, g)
                          /\ TypeOf(r, pop, g) = 2 <=>
                                 (~Near(r, g) /\ ransample[g] < FdstNum)
                          /\ TypeOf(r, pop, g) \in {0, 1, 2}

\* one cell at exactly maxEDist with a sample below fdst, selected as distal,
\* and one farther away with a sample equal to fdst, not selected
C13_Witness ==
    \E r \in Ranks :
        /\ lfp[r].status = "ready"
        /\ cells[1].owner = r /\ cells[1].kind = "bio"
        /\ cells[2].owner = r /\ cells[2].kind = "bio"
        /\ Dist2(cells[1].secs[1].p0, epoint) = Sq(lfp[r].maxEDist)
        /\ TypeOf(r, "A", 1) = 2
        /\ ransample[2] = FdstNum
        /\ TypeOf(r, "B", 2) = 0

\* C14: the first execution of sample_lfp happens at simulator
\* initialization, every execution schedules exactly one further execution
\* at the current time plus dt_lfp, and the times recorded in self.t on
\* rank 0 are strictly increasing, consecutive entries differing by dt_lfp.
C14_FixedInterval ==
    /\ ~running => (lfp[0].t = <<>> /\ events = {})
    /\ running =>
           /\ Len(lfp[0].t) >= 1
           /\ lfp[0].t[1] = 0
           /\ lfp[0].t[Len(lfp[0].t)] = ht
           /\ events = {ht + dt_lfp}
    /\ \A k \in 1 .. (Len(lfp[0].t) - 1) :
           lfp[0].t[k + 1] = lfp[0].t[k] + dt_lfp

C14_Witness ==
    /\ running
    /\ Len(lfp[0].t) >= 2
    /\ ht = lfp[0].t[2]
    /\ ht > 0

\* the lengths of the two output sequences on every rank
OutputLengths ==
    /\ \A r \in Ranks : Len(lfp[r].t) = Len(lfp[r].meanlfp)
    /\ \A r \in Ranks \ {0} : lfp[r].t = <<>> /\ lfp[r].meanlfp = <<>>
    /\ ~running => lfp[0].t = <<>>
    /\ running => Len(lfp[0].t) = (ht \div dt_lfp) + 1

\* a step that changes the output of rank r appends one entry to both
\* sequences: the time of the execution and the sum reduced in it
AppendsOnly(r) ==
    (lfp'[r].t # lfp[r].t \/ lfp'[r].meanlfp # lfp[r].meanlfp) =>
        /\ lfp'[r].t = Append(lfp[r].t, ht')
        /\ lfp'[r].meanlfp = Append(lfp[r].meanlfp, allreduce(vlfp'))

\* C15: self.t and self.meanlfp always have the same length and entry k of
\* meanlfp is the value computed at time t[k]; on rank 0 the length is the
\* number of completed sample_lfp executions, on every other rank both stay
\* empty; no operation removes or rewrites an entry.
C15_ParallelOutput ==
    /\ []OutputLengths
    /\ [][\A r \in Ranks : AppendsOnly(r)]_vars

C15_Witness ==
    /\ running
    /\ Len(lfp[0].t) = 2
    /\ Len(lfp[0].meanlfp[2]) > 0
    /\ lfp[1].status = "ready"
    /\ lfp[1].lfp_ids # lfp[0].lfp_ids
    /\ lfp[1].t = <<>>

\* the terms of a weighted sum, as a set
TermSet(sum) == {sum[n] : n \in DOMAIN sum}

\* C16: at every sampling event every rank calls the collective sum
\* reduction exactly once, also a rank that owns no selected cell and
\* contributes 0; the value recorded on rank 0 is the sum over all ranks of
\* their local weighted current sums; the ranks never disagree on the
\* number of reductions performed.
C16_OneReductionPerSample ==
    /\ \A r \in Ranks : nreduce[r] = Len(lfp[0].t)
    /\ running =>
           LET rec == lfp[0].meanlfp[Len(lfp[0].meanlfp)]
           IN /\ TermSet(rec) = UNION {TermSet(LocalSum(lfp[r], cells)) : r \in Ranks}
              /\ Len(rec) = Len(LocalSum(lfp[0], cells)) + Len(LocalSum(lfp[1], cells))
              /\ \A r \in Ranks : vlfp[r] = LocalSum(lfp[r], cells)

\* two samples taken; rank 0 owns no selected cell and rank 1 owns one
C16_Witness ==
    /\ running
    /\ Len(lfp[0].t) = 2
    /\ LocalSum(lfp[0], cells) = <<>>
    /\ LocalSum(lfp[1], cells) # <<>>
    /\ lfp[0].meanlfp[2] = LocalSum(lfp[1], cells)
    /\ nreduce[0] = 2

\* the caller is iterating: iter has been called, then next any number of
\* times
Iterating == call.op \in {"iter", "next"} /\ prot.run >= 0

\* C17: iter then repeated next yields exactly nRuns items, the k-th being
\* getRunCycles(k) for k = 0 .. nRuns-1 in increasing order, then raises
\* StopIteration; every further next raises StopIteration too; iter restarts
\* the sequence from run 0.
C17_IterationYieldsRuns ==
    Iterating =>
        /\ Len(call.items) = (IF prot.run <= prot.nRuns THEN prot.run
                              ELSE prot.nRuns)
        /\ \A k \in DOMAIN call.items : call.items[k] = getRunCycles(prot, k - 1)
        /\ call.op = "iter" => (prot.run = 0 /\ call.exc = "none")
        /\ call.op = "next" =>
               call.exc = (IF prot.run > prot.nRuns THEN "StopIteration"
                           ELSE "none")

\* two different runs yielded, then StopIteration twice
C17_Witness ==
    /\ Iterating
    /\ prot.nRuns = 2
    /\ prot.run = prot.nRuns + 2
    /\ Len(call.items) = 2
    /\ call.items[1] # call.items[2]
    /\ call.exc = "StopIteration"

\* a call of getStimArray that returned its array
StimReturned == call.op = "getStimArray" /\ call.exc = "none"

\* the array before the safeguard: the delay and the blocks of the pulses
Unclamped ==
    DelayBlock(getRunCycles(prot, call.run).Dt_delay, call.dt)
        \o PulseBlocks(prot.phi_ts.v[call.run + 1][call.phiInd + 1],
                       getRunCycles(prot, call.run).rows, 1,
                       getRunCycles(prot, call.run).Dt_delay, call.dt)

\* C18: every element of the array returned by getStimArray is greater than
\* or equal to 0, whatever the protocol and the stimulus function, also for
\* a ramp generated with a negative phi, whose spline takes negative values.
C18_StimNonNegative ==
    StimReturned => \A i \in DOMAIN call.stim : call.stim[i][1] >= 0

\* a decreasing ramp was sampled where its spline is negative
C18_Witness ==
    /\ StimReturned
    /\ prot.protocol = "ramp"
    /\ prot.phis.v[call.phiInd + 1] < 0
    /\ \E i \in DOMAIN call.stim : Unclamped[i][1] < 0 /\ call.stim[i] = Rat(0, 1)

\* the cycles and the delay of the run that was sampled
StimRows == getRunCycles(prot, call.run).rows

StimDelay == getRunCycles(prot, call.run).Dt_delay

\* the time at which the block of pulse p starts
RECURSIVE StartOf(_)
StartOf(p) ==
    IF p = 1 THEN StimDelay
    ELSE StartOf(p - 1) + StimRows[p - 1][1] + StimRows[p - 1][2]

\* the samples a block of duration len adds when the sample shared with the
\* block before is counted once: round(len/dt + 1) - 1
BlockLen(len) == PyRound(len + call.dt, call.dt) - 1

\* the number of samples before the block of pulse p
RECURSIVE OffsetOf(_)
OffsetOf(p) ==
    IF p = 1 THEN BlockLen(StimDelay) + 1
    ELSE OffsetOf(p - 1) + BlockLen(StimRows[p - 1][1] + StimRows[p - 1][2])

\* the samples of the delay and of the off phases are 0
QuietIsZero ==
    /\ \A i \in 1 .. (PyRound(StimDelay, call.dt) + 1) :
           i \in DOMAIN call.stim /\ call.stim[i] = Rat(0, 1)
    /\ \A p \in DOMAIN StimRows :
       \A i \in 1 .. BlockLen(StimRows[p][1] + StimRows[p][2]) :
           LinspaceAt(StartOf(p), StimRows[p][1] + StimRows[p][2],
                      BlockLen(StimRows[p][1] + StimRows[p][2]) + 1, i)[1]
               > (StartOf(p) + StimRows[p][1])
                     * LinspaceAt(StartOf(p), StimRows[p][1] + StimRows[p][2],
                                  BlockLen(StimRows[p][1] + StimRows[p][2]) + 1, i)[2]
           => /\ OffsetOf(p) + i \in DOMAIN call.stim
              /\ call.stim[OffsetOf(p) + i] = Rat(0, 1)

RECURSIVE SumRounded(_)
SumRounded(p) ==
    IF p = 0 THEN 0
    ELSE SumRounded(p - 1) + PyRound(StimRows[p][1] + StimRows[p][2], call.dt)

\* C19 as stated: the array returned by getStimArray(run, phiInd, dt) has
\* round(Dt_delay/dt) + 1 + the sum over the pulses of round((Dt_on+Dt_off)/dt)
\* samples, a sample shared by two blocks being counted once; the samples of
\* the delay and of every off phase are 0.
C19_StimLayout ==
    StimReturned =>
        /\ Len(call.stim) = PyRound(StimDelay, call.dt) + 1 + SumRounded(Len(StimRows))
        /\ QuietIsZero

\* C19, with the counts the code computes: the delay gives round(Dt_delay/dt + 1)
\* samples and each pulse round((Dt_on+Dt_off)/dt + 1) - 1 further ones, the
\* sample shared by two blocks being counted once; the samples of the delay
\* and of every off phase are 0.
C19_StimLayoutRounded ==
    StimReturned =>
        /\ Len(call.stim) = OffsetOf(Len(StimRows) + 1)
        /\ \A i \in 1 .. (BlockLen(StimDelay) + 1) : call.stim[i] = Rat(0, 1)
        /\ QuietIsZero

\* two pulses after a delay were sampled, the stimulus is on in some sample,
\* and a duration is an odd number of half steps
C19_Witness ==
    /\ StimReturned
    /\ Len(StimRows) = 2
    /\ StimDelay > 0
    /\ \E i \in DOMAIN call.stim : call.stim[i][1] > 0
    /\ \E i \in DOMAIN call.stim : i > OffsetOf(2) /\ call.stim[i] = Rat(0, 1)
    /\ (2 * StimDelay) % call.dt = 0 /\ StimDelay % call.dt # 0

\* genPulseSet has filled phi_ts with the default generator's functions
SquareGenerated ==
    /\ call.op = "genPulseSet"
    /\ call.exc = "none"
    /\ prot.protocol \notin {"sinusoid", "chirp", "ramp"}

\* times in half ticks from before the pulse to after it
TimesAround(pulse) == {Rat(n, 2) : n \in (2 * pulse[1] - 3) .. (2 * pulse[2] + 3)}

Within(t, pulse) == pulse[1] * t[2] <= t[1] /\ t[1] <= pulse[2] * t[2]

\* C20: the function returned by the default genPulse(run, phi, [pStart, pEnd])
\* evaluates to phi at every time in [pStart, pEnd] and to 0 at every time
\* outside that interval.
C20_SquarePulse ==
    SquareGenerated =>
        \A run \in 1 .. prot.nRuns : \A f \in 1 .. prot.nPhis :
        \A q \in DOMAIN RunPulses(prot, run - 1) :
        \A t \in TimesAround(RunPulses(prot, run - 1)[q]) :
            SplineAt(prot.phi_ts.v[run][f][q], t)
                = IF Within(t, RunPulses(prot, run - 1)[q])
                  THEN Rat(prot.phis.v[f] * PhiUnit, 1)
                  ELSE Rat(0, 1)

\* two square pulses of a negative intensity, the second evaluated inside,
\* at its end and after it
C20_Witness ==
    /\ SquareGenerated
    /\ prot.protocol = "step"
    /\ prot.nPulses = 2
    /\ prot.phis.v[1] < 0
    /\ SplineAt(prot.phi_ts.v[1][1][2], Rat(2 * prot.pulses[2][1] + 1, 2))
           = Rat(prot.phis.v[1] * PhiUnit, 1)
    /\ SplineAt(prot.phi_ts.v[1][1][2], Rat(prot.pulses[2][2], 1))
           = Rat(prot.phis.v[1] * PhiUnit, 1)
    /\ SplineAt(prot.phi_ts.v[1][1][2], Rat(2 * prot.pulses[2][2] + 1, 2)) = Rat(0, 1)

\* the electrode in the coordinates of interpxyz(sec, .)
ScaledEpoint(sec) == [c \in 1 .. 3 |-> 2 * sec.nseg * epoint[c]]

\* C21: the coefficient of the k-th segment (k = 1 .. nseg) of a section is
\* computed from the coordinates of the k-th internal node interpxyz
\* produced: rd from the electrode to that node, ld from that node to the
\* section's 0-end; not from the 0-end itself or the node of the segment
\* before.
C21_OwnNode ==
    \A r \in Constructed : \A w \in StoresOf(r) :
        w.k.kind = "k" =>
            /\ w.k.rd2 = Dist2(ScaledEpoint(SecOf(w)),
                               interpxyz(SecOf(w), w.seg + 1))
            /\ w.k.ld2 = Dist2(interpxyz(SecOf(w), w.seg + 1),
                               interpxyz(SecOf(w), 0))

\* the attributes prepare computes
Schedule(o) ==
    <<o.cycles, o.nPulses, o.pulses, o.Dt_total, o.Dt_delays, o.Dt_ons,
      o.Dt_offs, o.phis, o.Vs, o.nPhis, o.nVs, o.nRuns>>

\* C22: prepare called a second time on a prepared protocol, no parameter
\* having been changed, returns and leaves cycles, nPulses, pulses, Dt_total,
\* Dt_delays, Dt_ons, Dt_offs, phis, Vs, nPhis, nVs and nRuns as they were.
C22_PrepareIdempotent ==
    [][call'.op = "prepare" /\ call.op # "prepare"
           => call'.exc = "none" /\ Schedule(prot') = Schedule(prot)]_vars

\* a sinusoid whose frequencies and intensities the first call had to sort
\* was prepared again
C22_Witness ==
    /\ call.op = "prepare"
    /\ call.exc = "none"
    /\ prot.protocol = "sinusoid"
    /\ call.params.ty = "params"
    /\ call.params.val.phis.v = <<1, 3>> /\ prot.phis.v = <<3, 1>>
    /\ call.params.val.fs = <<1000, 500>> /\ prot.fs = <<500, 1000>>

\* a constructor of the class name has just returned an object
ReturnedAs(name) == Returned /\ prot.protocol = name

\* C23: protRecovery.prepare sorts Dt_IPIs ascending and builds, for every
\* run r, two pulses of duration Dt_on separated by an off phase of
\* Dt_IPIs[r].  When Dt_total >= Dt_delay + 2 Dt_on + max(Dt_IPIs), the final
\* off phase of every run is Dt_total minus that sum, which is >= 0, and no
\* run lasts longer than Dt_total.  When Dt_total is smaller, a warning is
\* issued and the cycles of every run stay [[Dt_on, IPI], [Dt_on, IPI]].
C23_RecoveryRuns ==
    ReturnedAs("recovery") =>
        LET ps == TruthyParams.val
            ipis == SortAsc(ps.Dt_IPIs)
            minD == ps.Dt_delay + 2 * ps.Dt_on + SeqMax(ps.Dt_IPIs)
            T == ps.Dt_total.v[1]
        IN /\ prot.Dt_IPIs = ipis
           /\ prot.nRuns = Len(ipis)
           /\ T < minD <=> \E i \in DOMAIN prot.warnings :
                               prot.warnings[i] = "insufficient run time"
           /\ \A r \in 1 .. prot.nRuns :
                  LET rc == getRunCycles(prot, r - 1)
                  IN /\ rc.Dt_delay = ps.Dt_delay
                     /\ Len(rc.rows) = 2
                     /\ rc.rows[1] = <<ps.Dt_on, ipis[r]>>
                     /\ rc.rows[2][1] = ps.Dt_on
                     /\ T >= minD =>
                            /\ rc.rows[2][2] = T - minD
                            /\ rc.rows[2][2] >= 0
                            /\ rc.Dt_delay + rc.rows[1][1] + rc.rows[1][2]
                                   + rc.rows[2][1] + rc.rows[2][2] <= T
                     /\ T < minD => rc.rows[2] = <<ps.Dt_on, ipis[r]>>

\* two intervals given in descending order with enough run time: the run of
\* the shorter interval ends before Dt_total
C23_Witness ==
    /\ ReturnedAs("recovery")
    /\ TruthyParams.val.Dt_IPIs = <<20, 10>>
    /\ prot.Dt_IPIs = <<10, 20>>
    /\ getRunCycles(prot, 0).rows[2][2] = 10
    /\ getRunCycles(prot, 1).rows[2][2] = 10
    /\ prot.warnings = <<>>

\* a constructor call has ended, with an object or an exception
Constructor == call.op \in {"init", "selectProtocol"} /\ call.name \in Supported

\* protDelta.prepare or protRecovery.prepare was given a Dt_total with which
\* it reaches the handling of phis and Vs, one of them a scalar
ScalarGiven ==
    /\ Constructor
    /\ call.name \in {"delta", "recovery"}
    /\ TruthyParams.val.Dt_total.ty = "num"
    /\ call.name = "delta" =>
           TruthyParams.val.Dt_total.v[1]
               >= TruthyParams.val.Dt_delay + TruthyParams.val.Dt_on
    /\ TruthyParams.val.phis.ty = "num" \/ TruthyParams.val.Vs.ty = "num"

\* C24: after prepare, phis and Vs are lists in non-increasing order, a
\* scalar having been wrapped into a one-element list, nPhis = len(phis) and
\* nVs = len(Vs); protDelta.prepare and protRecovery.prepare wrap and sort a
\* scalar phis or Vs as well, raising nothing while they do.
C24_PhisVsSorted ==
    /\ (Returned /\ prot.protocol \in InheritPrepare \cup {"delta", "recovery"}) =>
           /\ prot.phis.v = SortDesc(TruthyParams.val.phis.v)
           /\ prot.Vs.v = SortDesc(TruthyParams.val.Vs.v)
           /\ prot.nPhis = Len(prot.phis.v)
           /\ prot.nVs = Len(prot.Vs.v)
    /\ ScalarGiven => call.exc # "TypeError"

\* Protocol.prepare was run on given parameters whose cycles is a scalar, in
\* a class and with phis for which nothing after the handling of cycles
\* raises
ScalarCycles ==
    /\ Constructor
    /\ call.name \in {"step", "ramp", "custom"}
    /\ call.params.ty = "params"
    /\ call.params.val.cycles.ty = "num"
    /\ call.params.val.phis.ty \in {"num", "list"}

\* C25: with a scalar cycles (the on duration) and no Dt_total set,
\* Protocol.prepare takes the off duration as 0 and completes with
\* cycles = [[Dt_on, 0]]; with Dt_total set, the off duration is
\* Dt_total - Dt_on - Dt_delay.
C25_ScalarCycles ==
    ScalarCycles =>
        /\ call.exc = "none"
        /\ prot.cycles =
               NdArray2(<<<<call.params.val.cycles.v[1],
                            IF call.params.val.Dt_total.ty = "none" THEN 0
                            ELSE call.params.val.Dt_total.v[1]
                                     - call.params.val.cycles.v[1]
                                     - call.params.val.Dt_delay>>>>)

\* C26: whether a distal gid is included depends only on the seed, the index
\* of its population in sorted order and its position in the population:
\* the sample compared with fdst is the draw of the population's stream
\* whose number is that position, one draw being consumed per gid before
\* the ownership check, so that the decision for a gid is the same on
\* whatever rank, and under whatever partition of the gids, it is made.
C26_PartitionIndependent ==
    \A r \in Constructed : \A pop \in Pops : \A n \in DOMAIN pop_gid_dict[pop] :
        (/\ cells[pop_gid_dict[pop][n]].owner = r
         /\ cells[pop_gid_dict[pop][n]].kind = "bio"
         /\ ~Near(r, pop_gid_dict[pop][n])) =>
            (pop_gid_dict[pop][n] \in IdsOf(r, pop)
                 <=> Stream(pop_gid_dict[pop], ransample)[n] < FdstNum)

\* a rank that owns the second gid of a population and not the first, the
\* two draws falling on different sides of fdst: the second gid is included
\* as distal by its own draw
C26_Witness ==
    \E r \in Constructed :
        /\ cells[1].owner # r
        /\ cells[3].owner = r
        /\ ~Near(r, 3)
        /\ ransample[1] >= FdstNum
        /\ ransample[3] < FdstNum
        /\ TypeOf(r, "A", 3) = 2

Ascending(s) == \A i \in DOMAIN s : \A j \in DOMAIN s : i < j => s[i] <= s[j]

SameElements(s, t) ==
    Len(s) = Len(t) /\ {s[i] : i \in DOMAIN s} = {t[i] : i \in DOMAIN t}

\* C27: protShortPulse.prepare sorts pDs ascending and sets nRuns = len(pDs);
\* getRunCycles(r) is, for every run r, a single pulse with delay Dt_delay,
\* on duration pDs[r] and off duration Dt_total - Dt_delay - pDs[r], so that
\* delay + on + off = Dt_total.
C27_ShortPulseRuns ==
    ReturnedAs("shortPulse") =>
        /\ Ascending(prot.pDs)
        /\ SameElements(prot.pDs, TruthyParams.val.pDs)
        /\ prot.nRuns = Len(prot.pDs)
        /\ \A r \in 1 .. prot.nRuns :
               /\ getRunCycles(prot, r - 1).Dt_delay = TruthyParams.val.Dt_delay
               /\ getRunCycles(prot, r - 1).rows =
                      <<<<prot.pDs[r],
                          TruthyParams.val.Dt_total.v[1]
                              - TruthyParams.val.Dt_delay - prot.pDs[r]>>>>
               /\ getRunCycles(prot, r - 1).Dt_delay
                      + getRunCycles(prot, r - 1).rows[1][1]
                      + getRunCycles(prot, r - 1).rows[1][2]
                  = TruthyParams.val.Dt_total.v[1]

\* two durations given in descending order, after a delay
C27_Witness ==
    /\ ReturnedAs("shortPulse")
    /\ TruthyParams.val.pDs = <<10, 5>>
    /\ prot.pDs = <<5, 10>>
    /\ TruthyParams.val.Dt_delay = 10
    /\ getRunCycles(prot, 0).rows = <<<<5, 25>>>>
    /\ getRunCycles(prot, 1).rows = <<<<10, 20>>>>

\* protDelta was constructed from parameters that give a Dt_total
DeltaGiven ==
    /\ Constructor
    /\ call.name = "delta"
    /\ call.op = "init" => call.params.ty # "empty"
    /\ TruthyParams.val.Dt_total.ty = "num"

\* the object as protDelta.prepare left it, also when a later statement of
\* prepare raised
DeltaPrepared == prepare(setParams(ClassAttrs("delta"), TruthyParams))

\* C28: protDelta.prepare fails its assertion for parameters with
\* Dt_total < Dt_delay + Dt_on; for all others it produces exactly one pulse
\* [Dt_delay, Dt_delay + Dt_on] with the off duration
\* Dt_total - Dt_delay - Dt_on >= 0, leaves Dt_total as given and has
\* nRuns = 1.
C28_DeltaSchedule ==
    DeltaGiven =>
        LET T == TruthyParams.val.Dt_total.v[1]
            d == TruthyParams.val.Dt_delay
            on == TruthyParams.val.Dt_on
        IN IF T < d + on
           THEN call.exc = "AssertionError" /\ prot = NoProt
           ELSE /\ call.exc = DeltaPrepared.exc
                /\ call.exc # "AssertionError"
                /\ DeltaPrepared.nPulses = 1
                /\ DeltaPrepared.pulses = <<<<d, d + on>>>>
                /\ DeltaPrepared.cycles = NdArray2(<<<<on, T - d - on>>>>)
                /\ DeltaPrepared.Dt_offs = <<T - d - on>>
                /\ T - d - on >= 0
                /\ DeltaPrepared.Dt_total = Num(T)
                /\ DeltaPrepared.nRuns = 1
                /\ call.exc = "none" =>
                       /\ prot.pulses = <<<<d, d + on>>>>
                       /\ prot.Dt_offs = <<T - d - on>>
                       /\ prot.Dt_total = Num(T)
                       /\ prot.nRuns = 1

\* a delta pulse after a delay that leaves a positive off phase
C28_Witness ==
    /\ DeltaGiven
    /\ call.exc = "none"
    /\ prot.pulses = <<<<10, 15>>>>
    /\ prot.Dt_offs = <<25>>
    /\ prot.Dt_total = Num(40)

\* phi0 as the sinusoid's constructor read it
ReadPhi0 == TruthyParams.val.phi0

\* C29: after protSinusoid.extraPrep, fs is sorted ascending and
\* nRuns = len(fs) = len(ws) = len(phi0), a scalar phi0 or a phi0 list of the
\* wrong length having been broadcast to nRuns copies of its (first) value,
\* so that ws[run] and phi0[run] exist for every run in 0 .. nRuns-1.
C29_SinusoidArrays ==
    ReturnedAs("sinusoid") =>
        /\ Ascending(prot.fs)
        /\ SameElements(prot.fs, TruthyParams.val.fs)
        /\ prot.nRuns = Len(prot.fs)
        /\ prot.nRuns = Len(prot.ws)
        /\ prot.nRuns = Len(prot.phi0.v)
        /\ (ReadPhi0.ty = "num" \/ Len(ReadPhi0.v) # prot.nRuns) =>
               \A i \in DOMAIN prot.phi0.v : prot.phi0.v[i] = ReadPhi0.v[1]
        /\ (ReadPhi0.ty # "num" /\ Len(ReadPhi0.v) = prot.nRuns) =>
               prot.phi0.v = ReadPhi0.v
        /\ \A run \in 0 .. (prot.nRuns - 1) :
               run + 1 \in DOMAIN prot.ws /\ run + 1 \in DOMAIN prot.phi0.v

\* one frequency and a phi0 list of two values: one copy of the first
C29_Witness ==
    /\ ReturnedAs("sinusoid")
    /\ ReadPhi0 = List(<<1, 2>>)
    /\ prot.nRuns = 1
    /\ prot.phi0.v = <<1>>

=============================================================================
